---- MODULE Spec2Model ----
(***************************************************************************)
(* State-machine model of the web-scanner crawl engine:                    *)
(*   src/src/lib/scanner-server.ts   scanWebsite and the control RPCs      *)
(*   src/src/lib/scanner-control.ts  the pause/stop flag store             *)
(*   src/src/lib/url-analyzer.ts     isStaticFile, shouldIncludeUrl        *)
(*   src/unnamed/part_001            normalizeUrl, isSameDomain            *)
(*                                                                         *)
(* The engine runs on a single-threaded event loop.  Code between two      *)
(* awaits is atomic; every action below is one such stretch of code.  The  *)
(* synchronous stretches of the coordinator that span several model steps  *)
(* (the worker-start loop) exclude every other action while they run.      *)
(***************************************************************************)
EXTENDS Integers, Sequences, FiniteSets, TLC

(***************************************************************************)
(* Bounds of the model.                                                    *)
(***************************************************************************)
MaxPagesBound == 2
MaxConcurrentBound == 2
MaxDepthBound == 1
\* capacity of the streamed log buffer (config.logging.maxLogEntries)
MaxLogEntries == 2
\* how many of its last entries the model keeps of the returned logs array
\* (at least MaxLogEntries, so that the buffer can be compared with it)
LogTail == 2
\* how many worker steps may fail in one run
MaxFaults == 1

(***************************************************************************)
(* Program constants.                                                      *)
(***************************************************************************)
Undefined == -1
RecentErrorsCap == 50
ReturnedErrorsCap == 20
BodyPrefixLen == 1000
StuckThreshold == 10

Min(a, b) == IF a < b THEN a ELSE b

\* the last n entries of s
LastN(s, n) == IF Len(s) <= n THEN s ELSE SubSeq(s, Len(s) - n + 1, Len(s))

SeqToSet(s) == {s[i] : i \in 1..Len(s)}

(***************************************************************************)
(* URLs.  A parsed URL is a record [host, path]; path is the sequence of   *)
(* its segments, a segment being [n |-> name, e |-> extension].  An href   *)
(* is the raw token found in a page: [proto, host, rooted, path, search,   *)
(* hash]; host = "" for a relative reference, rooted says that the token   *)
(* has a path, which begins with "/".                                      *)
(***************************************************************************)
Seg(n, e) == [n |-> n, e |-> e]

Origin == "example.test"
Foreign == "other.test"

Url(h, p) == [host |-> h, path |-> p]

UHome == Url(Origin, <<>>)
UA == Url(Origin, <<Seg("a", "")>>)
UB == Url(Origin, <<Seg("a", ""), Seg("b", "")>>)
UC == Url(Origin, <<Seg("c", "")>>)
UCss == Url(Origin, <<Seg("x", "css")>>)
UAsset == Url(Origin, <<Seg("assets", ""), Seg("p", "")>>)
UOther == Url(Foreign, <<>>)
ULogin == Url(Origin, <<Seg("login", "")>>)
UDashboard == Url(Origin, <<Seg("dashboard", "")>>)

Href(proto, h, rooted, p, search, hash) ==
    [proto |-> proto, host |-> h, rooted |-> rooted, path |-> p,
     search |-> search, hash |-> hash]

\* the path-absolute reference to url u, such as "/a/b"
Rel(u) == Href("", "", TRUE, u.path, FALSE, FALSE)
\* the absolute reference to url u
Abs(u) == Href("https:", u.host, TRUE, u.path, FALSE, FALSE)
\* the empty string
NoHref == Href("", "", FALSE, <<>>, FALSE, FALSE)
\* a fragment-only reference, such as "#top"
Fragment == Href("", "", FALSE, <<>>, FALSE, TRUE)

ExcludeProtocols == {"javascript:", "mailto:", "tel:", "data:", "blob:"}

\* the null result of normalizeUrl
Null == Url("", <<>>)

\* the empty string given as a URL
UEmpty == Url("", <<>>)

\* new URL(u) succeeds
isParseable(u) == u.host # ""

\* normalizeUrl: null for an empty href or an excluded protocol; otherwise
\* the href resolved against the base, with hash and search cleared.
normalizeUrl(href, baseUrl) ==
    IF href = NoHref
    THEN Null
    ELSE IF href.proto \in ExcludeProtocols
    THEN Null
    ELSE IF href.host = "" /\ ~href.rooted
    THEN Url(baseUrl.host, baseUrl.path)
    ELSE Url(IF href.host = "" THEN baseUrl.host ELSE href.host, href.path)

\* isSameDomain: equal hostnames.
isSameDomain(url, baseUrl) == url.host = baseUrl.host

StaticExtensions ==
    {"js", "jsx", "ts", "tsx", "mjs", "cjs", "css", "scss", "sass", "less",
     "jpg", "jpeg", "png", "gif", "svg", "ico", "webp", "bmp", "tiff", "tif",
     "woff", "woff2", "ttf", "otf", "eot",
     "mp4", "mp3", "avi", "mov", "wmv", "flv", "webm", "ogg", "wav",
     "pdf", "doc", "docx", "xls", "xlsx", "ppt", "pptx",
     "zip", "rar", "7z", "tar", "gz", "bz2",
     "xml", "json", "txt", "csv", "rtf"}

StaticPaths ==
    {"static", "assets", "public", "media", "images", "img", "css", "js",
     "fonts", "font", "scripts", "styles", "vendor", "lib", "dist", "build"}

CdnHosts == {"cdn.example.test", "static.example.test",
             "assets.example.test", "media.example.test"}

\* isStaticFile: a segment carrying a static extension, a static directory
\* (a segment followed by another one), or a CDN-like hostname.
isStaticFile(url) ==
    \/ \E i \in 1..Len(url.path) : url.path[i].e \in StaticExtensions
    \/ \E i \in 1..(Len(url.path) - 1) :
          url.path[i].e = "" /\ url.path[i].n \in StaticPaths
    \/ url.host \in CdnHosts

\* A path regex filter is "" (not configured), "(" (a pattern that does not
\* compile) or "/a" (tested against the path, case-insensitively: the path
\* has a segment that begins with the letter a).
NoFilter == ""
InvalidFilter == "("
FilterA == "/a"

NamesInA == {"a", "assets", "A"}

\* matchesPathRegex: an invalid pattern matches nothing.
matchesPathRegex(url, regexPattern) ==
    IF regexPattern = InvalidFilter THEN FALSE
    ELSE IF regexPattern = FilterA
    THEN \E i \in 1..Len(url.path) : url.path[i].n \in NamesInA
    ELSE TRUE

shouldIncludeUrl(url, includePathRegex) ==
    IF includePathRegex = NoFilter THEN TRUE
    ELSE matchesPathRegex(url, includePathRegex)

(***************************************************************************)
(* The site that is crawled: what each URL answers.  markers are the       *)
(* lower-cased substrings of the body that soft-error detection looks for, *)
(* len is the length of the body, hrefs the URL tokens of the document in  *)
(* document order, jsonUrls the string leaves of a JSON body.              *)
(***************************************************************************)
Page(status, json, markers, len, hrefs, jsonUrls, location) ==
    [status |-> status, json |-> json, markers |-> markers, len |-> len,
     hrefs |-> hrefs, jsonUrls |-> jsonUrls, location |-> location]

Site(u) ==
    IF u = UHome THEN
        Page(200, FALSE, {}, 1200,
             <<Rel(UA), Rel(UCss), Abs(UOther),
               Href("", "", TRUE, UA.path, FALSE, TRUE),
               Href("mailto:", "", FALSE, <<>>, FALSE, FALSE), Rel(UC)>>,
             <<>>, NoHref)
    ELSE IF u = UA THEN
        Page(200, FALSE, {"404", "not found"}, 300,
             <<Rel(UB), Rel(UHome), Fragment>>, <<>>, NoHref)
    ELSE IF u = UB THEN
        Page(200, TRUE, {}, 40, <<>>, <<Rel(UC), Rel(UCss)>>, NoHref)
    ELSE IF u = UC THEN
        Page(500, FALSE, {}, 1500, <<Rel(UHome)>>, <<>>, Rel(UA))
    ELSE Page(200, FALSE, {}, 10, <<>>, <<>>, NoHref)

(***************************************************************************)
(* Errors thrown by a fetch or a browser call: msg is the set of the       *)
(* lower-cased markers the message contains, code the error code.          *)
(***************************************************************************)
Err(msg, code) == [msg |-> msg, code |-> code]

ETimeout == Err({"timeout"}, "")
EFetch == Err({}, "")
EClose == Err({"connection"}, "")

FetchErrors == {ETimeout, EFetch}

Classification(type, severity, retryable) ==
    [type |-> type, severity |-> severity, retryable |-> retryable]

classifyErrorMutantNetworkFirst(error, statusCode) ==
    IF statusCode # Undefined /\ statusCode # 0 /\ statusCode >= 500
    THEN Classification("server", "high", TRUE)
    ELSE IF statusCode # Undefined /\ statusCode >= 400 /\ statusCode < 500
    THEN Classification("client",
                        IF statusCode = 401 \/ statusCode = 403
                        THEN "high" ELSE "medium",
                        statusCode = 429 \/ statusCode = 408)
    ELSE IF \/ error.msg \cap {"network", "connection", "econnrefused",
                               "enotfound", "econnreset"} # {}
            \/ error.code \in {"ECONNREFUSED", "ENOTFOUND", "ECONNRESET",
                               "ECONNABORTED"}
    THEN Classification("network", "high", TRUE)
    ELSE IF \/ "timeout" \in error.msg
            \/ "headers timeout" \in error.msg
            \/ error.code \in {"UND_ERR_HEADERS_TIMEOUT", "ETIMEDOUT", "TimeoutError"}
    THEN Classification("timeout", "medium", TRUE)
    ELSE IF error.msg \cap {"server error", "internal error"} # {}
    THEN Classification("server", "high", TRUE)
    ELSE IF error.msg \cap {"memory", "out of memory", "crash", "fatal"} # {}
    THEN Classification("unknown", "critical", FALSE)
    ELSE Classification("unknown", "medium", FALSE)

\* classifyError: by status code first, then by message and code.
classifyError(error, statusCode) ==
    IF statusCode # Undefined /\ statusCode # 0 /\ statusCode >= 500
    THEN Classification("server", "high", TRUE)
    ELSE IF statusCode # Undefined /\ statusCode >= 400 /\ statusCode < 500
    THEN Classification("client",
                        IF statusCode = 401 \/ statusCode = 403
                        THEN "high" ELSE "medium",
                        statusCode = 429 \/ statusCode = 408)
    ELSE IF \/ "timeout" \in error.msg
            \/ "headers timeout" \in error.msg
            \/ error.code \in {"UND_ERR_HEADERS_TIMEOUT", "ETIMEDOUT", "TimeoutError"}
    THEN Classification("timeout", "medium", TRUE)
    ELSE IF \/ error.msg \cap {"network", "connection", "econnrefused",
                               "enotfound", "econnreset"} # {}
            \/ error.code \in {"ECONNREFUSED", "ENOTFOUND", "ECONNRESET",
                               "ECONNABORTED"}
    THEN Classification("network", "high", TRUE)
    ELSE IF error.msg \cap {"server error", "internal error"} # {}
    THEN Classification("server", "high", TRUE)
    ELSE IF error.msg \cap {"memory", "out of memory", "crash", "fatal"} # {}
    THEN Classification("unknown", "critical", FALSE)
    ELSE Classification("unknown", "medium", FALSE)

EmptyErrorSummary ==
    [total |-> 0,
     byType |-> [t \in {"timeout", "network", "server", "client", "unknown"} |-> 0],
     bySeverity |-> [v \in {"critical", "high", "medium", "low"} |-> 0],
     byStatusCode |-> {},
     recentErrors |-> <<>>]

recordErrorMutantNoShift(summary, url, error, statusCode) ==
    LET c == classifyError(error, statusCode)
        pushed == Append(summary.recentErrors, [url |-> url, severity |-> c.severity])
    IN [total |-> summary.total + 1,
        byType |-> [summary.byType EXCEPT ![c.type] = @ + 1],
        bySeverity |-> [summary.bySeverity EXCEPT ![c.severity] = @ + 1],
        byStatusCode |-> IF statusCode # Undefined /\ statusCode # 0
                         THEN summary.byStatusCode \cup {statusCode}
                         ELSE summary.byStatusCode,
        recentErrors |-> pushed]

\* recordError: count the error and keep the last 50 of them.
recordError(summary, url, error, statusCode) ==
    LET c == classifyError(error, statusCode)
        pushed == Append(summary.recentErrors, [url |-> url, severity |-> c.severity])
    IN [total |-> summary.total + 1,
        byType |-> [summary.byType EXCEPT ![c.type] = @ + 1],
        bySeverity |-> [summary.bySeverity EXCEPT ![c.severity] = @ + 1],
        byStatusCode |-> IF statusCode # Undefined /\ statusCode # 0
                         THEN summary.byStatusCode \cup {statusCode}
                         ELSE summary.byStatusCode,
        recentErrors |-> IF Len(pushed) > RecentErrorsCap THEN Tail(pushed) ELSE pushed]

(***************************************************************************)
(* Soft-error detection on a body served with status 200.  The Vietnamese  *)
(* patterns are written without their diacritics.                          *)
(***************************************************************************)
NotFoundPatterns == {"404", "not found", "page not found", "khong tim thay",
                     "trang khong ton tai", "file not found", "document not found",
                     "resource not found", "url not found"}
NotFoundAnchors == {"404", "not found", "khong tim thay"}
ForbiddenPatterns == {"403", "forbidden", "access denied", "permission denied",
                      "khong co quyen", "bi cam"}
ServerErrorPatterns == {"500", "internal server error", "server error", "loi may chu"}
UnauthorizedPatterns == {"401", "unauthorized", "authentication required",
                         "chua dang nhap"}

softErrorStatusMutantNoAnchor(statusCode, markers) ==
    IF statusCode # 200 THEN statusCode
    ELSE IF markers \cap NotFoundPatterns # {} THEN 404
    ELSE IF markers \cap ForbiddenPatterns # {} THEN 403
    ELSE IF markers \cap ServerErrorPatterns # {} THEN 500
    ELSE IF markers \cap UnauthorizedPatterns # {} THEN 401
    ELSE statusCode

softErrorStatus(statusCode, markers) ==
    IF statusCode # 200 THEN statusCode
    ELSE IF markers \cap NotFoundPatterns # {} /\ markers \cap NotFoundAnchors # {}
    THEN 404
    ELSE IF markers \cap ForbiddenPatterns # {} THEN 403
    ELSE IF markers \cap ServerErrorPatterns # {} THEN 500
    ELSE IF markers \cap UnauthorizedPatterns # {} THEN 401
    ELSE statusCode

(***************************************************************************)
(* Inputs: the ScanConfig of the session and what seed discovery finds.    *)
(***************************************************************************)
ScanIds == {"s1"}

Filters == {NoFilter, FilterA}

Configs ==
    [url : {UHome},
     maxDepth : 0..MaxDepthBound,
     maxPages : 0..MaxPagesBound,
     maxConcurrent : 1..MaxConcurrentBound,
     pathRegexFilter : Filters,
     usePuppeteer : BOOLEAN,
     login : {FALSE},
     scanId : ScanIds]

\* sitemap: the <url><loc> entries of the sitemap; robots: the Disallow
\* paths of robots.txt; nested: what the background fetches started for the
\* <sitemap><loc> entries resolve to, one list per fetch.  Such a fetch
\* probes the sitemap paths of the entry's origin again, so it resolves to
\* the <url><loc> entries of the same sitemap.
Seeds(sitemap, robots, nested) ==
    [sitemap |-> sitemap, robots |-> robots, nested |-> nested]

SeedScenarios ==
    {Seeds(<<>>, <<>>, <<>>),
     Seeds(<<UA, UCss, UOther>>, <<UC, UA, UAsset>>, <<>>),
     Seeds(<<UCss, UB>>, <<>>, << <<UCss, UB>> >>)}

VARIABLES
    config,            \* the ScanConfig scanWebsite was called with
    cpc,               \* where the scanWebsite handler is
    usePuppeteer,      \* the mutable usePuppeteer flag
    browser,           \* "none", "open" or "closed"
    scanControlStore,  \* scanId -> [present, isPaused, isStopped]
    scanLogsStore,     \* scanId -> [present, v]: the streamed log buffer
    scanResultsStore,  \* scanId -> [present, v]: the results snapshot
    queue,             \* the frontier: sequence of [url, depth]
    visited,           \* set of URLs
    results,           \* sequence of ScanResult
    logs,              \* the logs array scanWebsite returns (its last entries)
    activePromises,    \* the workers in flight: sequence of [url, depth, pc]
    lastQueueSize,
    noProgressCount,
    totalErrors,
    totalLinksFound,
    errorSummary,
    nested,            \* nested-sitemap fetches still running in the background
    ttlTimer,          \* the eviction timer is pending
    faults,            \* worker steps that have failed so far
    fetchCount,        \* history: URL -> number of fetches started for it
    sessionCookies,    \* the cookie string: sequence of [n, v] entries
    loginRedirectUrl,  \* Null until the login sets it
    startUrl,          \* where the crawl starts
    currentCookies,    \* login: the Set-Cookie header of the login page
    csrfToken,         \* login: the token found on the login page
    retryCookieMap,    \* login: the cookie map of the 419 retry
    loginHistory,      \* history: the requests and warnings of the login
    called,            \* the helper applied on its own, with its arguments
    returned           \* what that application returned

vars == <<config, cpc, usePuppeteer, browser, scanControlStore, scanLogsStore,
          scanResultsStore, queue, visited, results, logs, activePromises,
          lastQueueSize, noProgressCount, totalErrors, totalLinksFound,
          errorSummary, nested, ttlTimer, faults, fetchCount, sessionCookies,
          loginRedirectUrl, startUrl, currentCookies, csrfToken,
          retryCookieMap, loginHistory, called, returned>>

pureVars == <<called, returned>>

loginVars == <<sessionCookies, loginRedirectUrl, startUrl, currentCookies,
               csrfToken, retryCookieMap, loginHistory>>

\* the URLs of the crawled origin
SiteUrls == {UHome, UA, UB, UC, UCss, UAsset, ULogin, UDashboard}

scanId == config.scanId
MAX_DEPTH == config.maxDepth
MAX_PAGES == config.maxPages
MAX_CONCURRENT == config.maxConcurrent

Absent == [present |-> FALSE, v |-> <<>>]
Present(v) == [present |-> TRUE, v |-> v]

NoControl == [present |-> FALSE, isPaused |-> FALSE, isStopped |-> FALSE]

\* getScanControl: the entry, or both flags false when there is none.
getScanControl(id) == scanControlStore[id]

\* getScanLogs / getScanResults: the stored list, or [] when there is none.
getScanLogs(id) == scanLogsStore[id].v
getScanResults(id) == scanResultsStore[id].v

LogEntry(type, message) == [type |-> type, message |-> message]

PushLogMutantDropsNewest(buf, e) ==
    LET b == Append(buf, e)
    IN IF Len(b) > MaxLogEntries THEN SubSeq(b, 1, Len(b) - 1) ELSE b

\* one storeLogs.push with the oldest entry dropped on overflow
PushLog(buf, e) ==
    LET b == Append(buf, e) IN IF Len(b) > MaxLogEntries THEN Tail(b) ELSE b

RECURSIVE PushLogs(_, _)
PushLogs(buf, es) ==
    IF es = <<>> THEN buf ELSE PushLogs(PushLog(buf, Head(es)), Tail(es))

\* log, called once for each entry of es
log(es) ==
    /\ logs' = LastN(logs \o es, LogTail)
    /\ scanLogsStore' =
          IF es = <<>> THEN scanLogsStore
          ELSE [scanLogsStore EXCEPT
                   ![scanId] = Present(PushLogs(scanLogsStore[scanId].v, es))]

updateResultsStoreMutantLastOnly(rs) ==
    scanResultsStore' = [scanResultsStore EXCEPT ![scanId] = Present(LastN(rs, 1))]

\* updateResultsStore, for the results list rs
updateResultsStore(rs) ==
    scanResultsStore' = [scanResultsStore EXCEPT ![scanId] = Present(rs)]

\* a helper applied to arguments; NoCall when none has been
Call(fn, args) == [fn |-> fn, args |-> args]
NoCall == Call("none", <<>>)

\* Synchronous code of the coordinator is running: nothing else can run.
CoordSync == cpc \in {"top", "start", "drain", "settled", "finalize"}

Init ==
    /\ config \in Configs
    /\ cpc = "idle"
    /\ usePuppeteer = config.usePuppeteer
    /\ browser = "none"
    /\ scanControlStore = [id \in ScanIds |-> NoControl]
    /\ scanLogsStore = [id \in ScanIds |-> Absent]
    /\ scanResultsStore = [id \in ScanIds |-> Absent]
    /\ queue = <<>>
    /\ visited = {}
    /\ results = <<>>
    /\ logs = <<>>
    /\ activePromises = <<>>
    /\ lastQueueSize = 0
    /\ noProgressCount = 0
    /\ totalErrors = 0
    /\ totalLinksFound = 0
    /\ errorSummary = EmptyErrorSummary
    /\ nested = <<>>
    /\ ttlTimer = FALSE
    /\ faults = 0
    /\ fetchCount = [u \in SiteUrls |-> 0]
    /\ sessionCookies = <<>>
    /\ loginRedirectUrl = Null
    /\ startUrl = config.url
    /\ currentCookies = <<>>
    /\ csrfToken = ""
    /\ retryCookieMap = <<>>
    /\ loginHistory = <<>>
    /\ called = NoCall
    /\ returned = <<>>

(***************************************************************************)
(* The control RPCs.                                                       *)
(***************************************************************************)
setScanPaused(id, isPaused) ==
    scanControlStore' =
        [scanControlStore EXCEPT ![id] =
            [present |-> TRUE, isPaused |-> isPaused, isStopped |-> @.isStopped]]

setScanStoppedMutantEverySession(id, isStopped) ==
    scanControlStore' =
        [k \in DOMAIN scanControlStore |->
            [present |-> TRUE, isPaused |-> scanControlStore[k].isPaused,
             isStopped |-> isStopped]]

setScanStopped(id, isStopped) ==
    scanControlStore' =
        [scanControlStore EXCEPT ![id] =
            [present |-> TRUE, isPaused |-> @.isPaused, isStopped |-> isStopped]]

initializeScanControl(id) ==
    scanControlStore' =
        [scanControlStore EXCEPT ![id] =
            [present |-> TRUE, isPaused |-> FALSE, isStopped |-> FALSE]]

cleanupScanControl(id) ==
    scanControlStore' = [scanControlStore EXCEPT ![id] = NoControl]

UnchangedCrawl ==
    UNCHANGED <<pureVars, loginVars, config, cpc, usePuppeteer, browser, scanLogsStore,
                scanResultsStore, queue, visited, results, logs, activePromises,
                lastQueueSize, noProgressCount, totalErrors, totalLinksFound,
                errorSummary, nested, ttlTimer, faults, fetchCount>>

pauseScan(id) ==
    /\ ~CoordSync
    /\ setScanPaused(id, TRUE)
    /\ UnchangedCrawl

resumeScan(id) ==
    /\ ~CoordSync
    /\ setScanPaused(id, FALSE)
    /\ UnchangedCrawl

stopScan(id) ==
    /\ ~CoordSync
    /\ setScanStopped(id, TRUE)
    /\ UnchangedCrawl

(***************************************************************************)
(* scanWebsite, up to the start of the scheduler.                          *)
(***************************************************************************)
QueueItem(url, depth) == [url |-> url, depth |-> depth]

\* [...new Set(list)]: first occurrences, in order
RECURSIVE Dedup(_)
Dedup(s) ==
    IF s = <<>> THEN <<>>
    ELSE LET init == Dedup(SubSeq(s, 1, Len(s) - 1))
             last == s[Len(s)]
         IN IF last \in SeqToSet(init) THEN init ELSE Append(init, last)

\* loginUrl && username && password
HasLogin == config.login

FetchingSeeds == LogEntry("info", "Fetching sitemap.xml and robots.txt...")

\* what follows the browser launch: the login when one is configured, with
\* the browser when it runs (up), else seed discovery from config.url
AfterLaunchLogs(up) ==
    IF HasLogin
    THEN <<LogEntry("info", "Starting login process..."),
           LogEntry("info", IF up THEN "Using Puppeteer to login"
                                  ELSE "Using fetch/cheerio to login")>>
    ELSE <<FetchingSeeds>>

AfterLaunchPc(up) ==
    IF HasLogin THEN (IF up THEN "blogin" ELSE "hget1") ELSE "seed"

\* Session state is allocated and, when the headless browser is asked
\* for, its launch begins.
ScanWebsiteEntry ==
    /\ cpc = "idle"
    /\ results' = <<>>
    /\ visited' = {}
    /\ queue' = <<>>
    /\ scanResultsStore' = [scanResultsStore EXCEPT ![scanId] = Present(<<>>)]
    /\ initializeScanControl(scanId)
    /\ LET es == IF usePuppeteer
                 THEN <<LogEntry("info", "Starting Puppeteer browser...")>>
                 ELSE AfterLaunchLogs(FALSE)
       IN /\ logs' = LastN(es, LogTail)
          /\ scanLogsStore' =
                [scanLogsStore EXCEPT ![scanId] = Present(PushLogs(<<>>, es))]
    /\ cpc' = IF usePuppeteer THEN "launch" ELSE AfterLaunchPc(FALSE)
    /\ UNCHANGED <<pureVars, loginVars, config, usePuppeteer, browser, activePromises,
                   lastQueueSize, noProgressCount, totalErrors, totalLinksFound,
                   errorSummary, nested, ttlTimer, faults, fetchCount>>

\* puppeteer.launch resolves or throws.
LaunchBrowser ==
    /\ cpc = "launch"
    /\ \E ok \in BOOLEAN :
          IF ok
          THEN /\ browser' = "open"
               /\ usePuppeteer' = usePuppeteer
               /\ log(<<LogEntry("success", "Puppeteer browser started")>>
                      \o AfterLaunchLogs(TRUE))
               /\ cpc' = AfterLaunchPc(TRUE)
          ELSE /\ browser' = "none"
               /\ usePuppeteer' = FALSE
               /\ log(<<LogEntry("error", "Failed to start Puppeteer"),
                        LogEntry("warning", "Will use fetch/cheerio instead")>>
                      \o AfterLaunchLogs(FALSE))
               /\ cpc' = AfterLaunchPc(FALSE)
    /\ UNCHANGED <<pureVars, loginVars, config, scanControlStore, scanResultsStore, queue,
                   visited, results, activePromises, lastQueueSize,
                   noProgressCount, totalErrors, totalLinksFound, errorSummary,
                   nested, ttlTimer, faults, fetchCount>>

(***************************************************************************)
(* The login that precedes the crawl.  A Set-Cookie header, as             *)
(* headers.get('set-cookie') returns it, is the sequence of its            *)
(* "name=value" segments: the cookie first, its attributes after it;       *)
(* attributes without "=" are dropped by every parser and are left out.    *)
(* A cookie map is the sequence of its [n, v] entries in insertion order,  *)
(* and the cookie string built from a map lists the same entries.          *)
(***************************************************************************)
C(n, v) == [n |-> n, v |-> v]

\* decodeURIComponent, on the values that occur
decodeURIComponent(v) == IF v = "t%3D" THEN "t=" ELSE v

\* Map.set: an existing key keeps its position and takes the new value
MapSet(m, n, v) ==
    IF \E i \in 1..Len(m) : m[i].n = n
    THEN [i \in 1..Len(m) |-> IF m[i].n = n THEN C(n, v) ELSE m[i]]
    ELSE Append(m, C(n, v))

MapHas(m, n) == \E i \in 1..Len(m) : m[i].n = n
MapGet(m, n) == (CHOOSE i \in 1..Len(m) : m[i].n = n)

\* the cookie-string parser: every "; "-separated segment becomes an
\* entry, its value URL-decoded
RECURSIVE ParseCookieString(_, _)
ParseCookieString(m, str) ==
    IF str = <<>> THEN m
    ELSE ParseCookieString(MapSet(m, Head(str).n, decodeURIComponent(Head(str).v)),
                           Tail(str))

\* the Set-Cookie parser of the POST answers and of the refetched login
\* page: cookieHeader.split(';')[0], value as sent
MergeSetCookie(m, header) ==
    IF header = <<>> THEN m ELSE MapSet(m, Head(header).n, Head(header).v)

LoginSegments == {"login", "dang-nhap"}

\* the URL test of isStillLoginPage
UrlHasLogin(u) == \E i \in 1..Len(u.path) : u.path[i].n \in LoginSegments

\* the login form is served at loginUrl and posts to it (no action attribute)
loginUrl == ULogin
formAction == loginUrl

\* the page served at u contains 'login' or 'đăng nhập'
BodyHasLogin(u) == u = loginUrl

PageAnswer(status, token, setCookie) ==
    [status |-> status, token |-> token, setCookie |-> setCookie]

PostAnswer(status, location, setCookie) ==
    [status |-> status, location |-> location, setCookie |-> setCookie]

\* what the server may answer to the GET of the login page: an error, a
\* form with a hidden token, a form whose token is the XSRF-TOKEN cookie
LoginPageAnswers ==
    {PageAnswer(500, "", <<>>),
     PageAnswer(200, "T1", <<C("sid", "1"), C("Path", "/")>>),
     PageAnswer(200, "", <<C("XSRF-TOKEN", "t%3D")>>)}

RetryPageAnswers ==
    {PageAnswer(200, "T2", <<>>),
     PageAnswer(200, "", <<C("sid", "3")>>)}

PostAnswers ==
    {PostAnswer(200, Null, <<C("sid", "2")>>),
     PostAnswer(302, UDashboard, <<C("auth", "5")>>),
     PostAnswer(302, ULogin, <<>>),
     PostAnswer(419, Null, <<C("sid", "2")>>)}

\* where the browser may land after submitting the form
BrowserLandings == {UDashboard, ULogin}
BrowserCookies == <<C("sid", "b")>>

\* the history of the login: the requests with their answers (status 0
\* for a request that threw) and the warnings of the verification
Ev(kind, token, status, setCookie, location) ==
    [kind |-> kind, token |-> token, status |-> status,
     setCookie |-> setCookie, location |-> location]

Requested(kind, token, a) ==
    Ev(kind, token, a.status, a.setCookie,
       IF kind = "POST" THEN a.location ELSE Null)
Threw(kind, token) == Ev(kind, token, 0, <<>>, Null)
Warned == Ev("WARN", "", 0, <<>>, Null)

StillOnLogin == LogEntry("warning", "Login may have failed, still on login page")
LoginError == LogEntry("error", "Error during login")

LoginPcs == {"blogin", "bverify", "hget1", "hpost1", "hget2", "hpost2", "verify"}

UnchangedByLogin ==
    UNCHANGED <<pureVars, config, browser, scanControlStore, scanResultsStore, queue,
                visited, results, activePromises, lastQueueSize,
                noProgressCount, totalErrors, totalLinksFound, errorSummary,
                nested, ttlTimer, faults, fetchCount>>

\* "Determine starting URL for scanning": from the login redirect when
\* there is one; else the start URL is verified by a fetch first.  es are
\* the log entries written before.
DetermineStart(redirect, es) ==
    IF redirect # Null
    THEN /\ startUrl' = redirect
         /\ log(es \o <<LogEntry("info", "Starting scan from URL after login"),
                         FetchingSeeds>>)
         /\ cpc' = "seed"
    ELSE /\ startUrl' = config.url
         /\ log(es)
         /\ cpc' = "verify"

\* The browser login, up to page.cookies(): it lands somewhere, or one of
\* its calls throws and the HTTP form login takes over.
BrowserLogin ==
    /\ cpc = "blogin"
    /\ \/ /\ usePuppeteer' = FALSE
          /\ log(<<LogEntry("error", "Error logging in with Puppeteer"),
                   LogEntry("info", "Using fetch/cheerio to login")>>)
          /\ loginHistory' = Append(loginHistory, Threw("BROWSER", ""))
          /\ cpc' = "hget1"
          /\ UNCHANGED <<sessionCookies, loginRedirectUrl>>
       \/ \E u \in BrowserLandings :
             /\ sessionCookies' = BrowserCookies
             /\ loginRedirectUrl' = u
             /\ log(<<LogEntry("success", "Login successful with Puppeteer")>>)
             /\ loginHistory' =
                   Append(loginHistory, Ev("BROWSER", "", 200, BrowserCookies, u))
             /\ cpc' = "bverify"
             /\ UNCHANGED usePuppeteer
    /\ UNCHANGED <<startUrl, currentCookies, csrfToken, retryCookieMap>>
    /\ UnchangedByLogin

\* page.content() of the browser login resolves, and the page is tested for
\* being the login page; or it throws.
BrowserVerify ==
    /\ cpc = "bverify"
    /\ \/ /\ usePuppeteer' = FALSE
          /\ log(<<LogEntry("error", "Error logging in with Puppeteer"),
                   LogEntry("info", "Using fetch/cheerio to login")>>)
          /\ cpc' = "hget1"
          /\ UNCHANGED <<startUrl, loginHistory>>
       \/ LET isStillLoginPage == \/ BodyHasLogin(loginRedirectUrl)
                                  \/ UrlHasLogin(loginRedirectUrl)
          IN /\ loginHistory' = IF isStillLoginPage
                                THEN Append(loginHistory, Warned)
                                ELSE loginHistory
             /\ DetermineStart(loginRedirectUrl,
                               <<IF isStillLoginPage THEN StillOnLogin
                                 ELSE LogEntry("success", "Login confirmed successful")>>)
             /\ UNCHANGED usePuppeteer
    /\ UNCHANGED <<sessionCookies, loginRedirectUrl, currentCookies, csrfToken,
                   retryCookieMap>>
    /\ UnchangedByLogin

\* The GET of the login page is answered: cookies, token and field names
\* are read from it; a throw or a non-2xx answer ends the login.
LoginPageDone ==
    /\ cpc = "hget1"
    /\ \/ /\ loginHistory' = Append(loginHistory, Threw("GET", ""))
          /\ DetermineStart(loginRedirectUrl, <<LoginError>>)
          /\ UNCHANGED <<currentCookies, csrfToken>>
       \/ \E a \in LoginPageAnswers :
             /\ loginHistory' = Append(loginHistory, Requested("GET", "", a))
             /\ IF a.status < 200 \/ a.status >= 300
                THEN /\ DetermineStart(loginRedirectUrl, <<LoginError>>)
                     /\ UNCHANGED <<currentCookies, csrfToken>>
                ELSE LET cookieMap == ParseCookieString(<<>>, a.setCookie)
                         token ==
                             IF a.token # "" THEN a.token
                             ELSE IF MapHas(cookieMap, "XSRF-TOKEN")
                             THEN decodeURIComponent(
                                      cookieMap[MapGet(cookieMap, "XSRF-TOKEN")].v)
                             ELSE ""
                     IN /\ currentCookies' = a.setCookie
                        /\ csrfToken' = token
                        /\ log(<<IF token # ""
                                 THEN LogEntry("info", "CSRF token found")
                                 ELSE LogEntry("warning", "CSRF token not found, may not be required"),
                                 LogEntry("info", "Using fields")>>)
                        /\ cpc' = "hpost1"
                        /\ UNCHANGED startUrl
    /\ UNCHANGED <<usePuppeteer, sessionCookies, loginRedirectUrl, retryCookieMap>>
    /\ UnchangedByLogin

\* The credential POST is answered: a Location of a 3xx answer is kept,
\* the cookies are merged, and a 419 starts the retry.
LoginPostDone ==
    /\ cpc = "hpost1"
    /\ \/ /\ loginHistory' = Append(loginHistory, Threw("POST", csrfToken))
          /\ DetermineStart(loginRedirectUrl, <<LoginError>>)
          /\ UNCHANGED <<sessionCookies, loginRedirectUrl>>
       \/ \E a \in PostAnswers :
             LET redirect == IF a.status >= 300 /\ a.status < 400
                                /\ a.location # Null
                             THEN a.location ELSE loginRedirectUrl
                 cookieMapAfter ==
                     MergeSetCookie(ParseCookieString(<<>>, currentCookies),
                                    a.setCookie)
                 merged == <<LogEntry("info", "Received cookie(s) from response"),
                             LogEntry("success", "Received and merged cookies from login response")>>
             IN /\ loginHistory' =
                       Append(loginHistory, Requested("POST", csrfToken, a))
                /\ sessionCookies' = cookieMapAfter
                /\ IF a.status = 419
                   THEN /\ loginRedirectUrl' = redirect
                        /\ log(merged \o <<LogEntry("warning", "CSRF token mismatch (419), retrying with new token...")>>)
                        /\ cpc' = "hget2"
                        /\ UNCHANGED startUrl
                   ELSE \* loginResponse.url is the URL posted to
                        /\ loginRedirectUrl' =
                              IF redirect # Null THEN redirect ELSE formAction
                        /\ DetermineStart(loginRedirectUrl',
                                          merged \o <<LogEntry("success", "Login successful")>>)
    /\ UNCHANGED <<usePuppeteer, currentCookies, csrfToken, retryCookieMap>>
    /\ UnchangedByLogin

\* The refetched login page is answered: its cookies go into a map that
\* starts from the cookies of the first login page, and the POST is
\* repeated when a hidden token is found.
RetryPageDone ==
    /\ cpc = "hget2"
    /\ \/ /\ loginHistory' = Append(loginHistory, Threw("GET", ""))
          /\ DetermineStart(loginRedirectUrl, <<LoginError>>)
          /\ UNCHANGED <<csrfToken, retryCookieMap>>
       \/ \E a \in RetryPageAnswers :
             /\ loginHistory' = Append(loginHistory, Requested("GET", "", a))
             /\ retryCookieMap' =
                   MergeSetCookie(ParseCookieString(<<>>, currentCookies),
                                  a.setCookie)
             /\ IF a.token # ""
                THEN /\ csrfToken' = a.token
                     /\ log(<<LogEntry("info", "Retrieved new CSRF token")>>)
                     /\ cpc' = "hpost2"
                     /\ UNCHANGED startUrl
                ELSE /\ DetermineStart(loginRedirectUrl, <<>>)
                     /\ UNCHANGED csrfToken
    /\ UNCHANGED <<usePuppeteer, sessionCookies, loginRedirectUrl, currentCookies>>
    /\ UnchangedByLogin

\* The repeated credential POST is answered.
RetryPostDone ==
    /\ cpc = "hpost2"
    /\ \/ /\ loginHistory' = Append(loginHistory, Threw("POST", csrfToken))
          /\ DetermineStart(loginRedirectUrl, <<LoginError>>)
          /\ UNCHANGED <<sessionCookies, loginRedirectUrl>>
       \/ \E a \in PostAnswers :
             /\ loginHistory' =
                   Append(loginHistory, Requested("POST", csrfToken, a))
             /\ sessionCookies' = MergeSetCookie(retryCookieMap, a.setCookie)
             /\ loginRedirectUrl' =
                   IF a.status >= 300 /\ a.status < 400 /\ a.location # Null
                   THEN a.location ELSE loginRedirectUrl
             /\ DetermineStart(loginRedirectUrl',
                               <<LogEntry("success", "Retry login successful")>>)
    /\ UNCHANGED <<usePuppeteer, currentCookies, csrfToken, retryCookieMap>>
    /\ UnchangedByLogin

\* The fetch that verifies the login, made when the login gave no redirect,
\* is answered or throws.
VerifyDone ==
    /\ cpc = "verify"
    /\ \/ /\ log(<<LogEntry("warning", "Unable to verify login, continuing with original URL"),
                   FetchingSeeds>>)
          /\ UNCHANGED <<startUrl, loginHistory>>
       \/ \E bodyHasLogin \in BOOLEAN :
             LET isStillLoginPage == bodyHasLogin \/ UrlHasLogin(startUrl)
             IN /\ startUrl' = IF isStillLoginPage THEN config.url ELSE startUrl
                /\ loginHistory' = IF isStillLoginPage
                                   THEN Append(loginHistory, Warned)
                                   ELSE loginHistory
                /\ log(<<IF isStillLoginPage THEN StillOnLogin
                         ELSE LogEntry("success", "Login confirmed successful, starting scan"),
                         FetchingSeeds>>)
    /\ cpc' = "seed"
    /\ UNCHANGED <<usePuppeteer, sessionCookies, loginRedirectUrl, currentCookies,
                   csrfToken, retryCookieMap>>
    /\ UnchangedByLogin

\* fetchSitemapUrls: the same-domain <url><loc> entries.
fetchSitemapUrls(locs, baseUrl) ==
    SelectSeq(locs, LAMBDA u : isSameDomain(u, baseUrl))

\* fetchRobotsUrls: the same-domain, non-static Disallow targets.
fetchRobotsUrls(paths, baseUrl) ==
    SelectSeq(paths, LAMBDA u : isSameDomain(u, baseUrl) /\ ~isStaticFile(u))

\* what seed discovery can find from baseUrl: nothing when new URL(baseUrl)
\* throws
SeedScenariosFor(baseUrl) ==
    IF isParseable(baseUrl) THEN SeedScenarios ELSE {Seeds(<<>>, <<>>, <<>>)}

\* the test a discovered seed passes before it is queued
SeedEligible(u, vis) ==
    /\ u \notin vis
    /\ isSameDomain(u, config.url)
    /\ ~isStaticFile(u)
    /\ (config.pathRegexFilter = NoFilter
          \/ shouldIncludeUrl(u, config.pathRegexFilter))

\* Seed discovery has answered: the seeds and the start URL are queued and
\* runParallelScan begins.
SeedDiscovery ==
    /\ cpc = "seed"
    /\ \E sc \in SeedScenariosFor(startUrl) :
          LET sitemapUrls == fetchSitemapUrls(sc.sitemap, startUrl)
              robotsUrls == fetchRobotsUrls(sc.robots, startUrl)
              uniqueUrls == Dedup(sitemapUrls \o robotsUrls)
              seeds == SelectSeq(uniqueUrls, LAMBDA u : SeedEligible(u, visited))
              q == [i \in 1..Len(seeds) |-> QueueItem(seeds[i], 0)]
                      \o <<QueueItem(startUrl, 0)>>
          IN /\ queue' = queue \o q
             /\ nested' = sc.nested
             /\ lastQueueSize' = Len(queue')
             /\ log((IF Len(sitemapUrls) > 0
                     THEN <<LogEntry("success", "Found URLs in sitemap")>>
                     ELSE <<>>)
                    \o (IF Len(robotsUrls) > 0
                        THEN <<LogEntry("info", "Found URLs from robots.txt")>>
                        ELSE <<>>)
                    \o (IF Len(uniqueUrls) > 0
                        THEN <<LogEntry("success",
                                        "Added URLs from sitemap/robots.txt to queue")>>
                        ELSE <<>>)
                    \o <<LogEntry("info", "Starting parallel scan")>>)
    /\ noProgressCount' = 0
    /\ cpc' = "top"
    /\ UNCHANGED <<pureVars, loginVars, config, usePuppeteer, browser, scanControlStore,
                   scanResultsStore, visited, results, activePromises,
                   totalErrors, totalLinksFound, errorSummary, ttlTimer, faults, fetchCount>>

\* A nested sitemap fetched in the background resolves: its URLs are
\* queued unless visited.
NestedSitemapArrives ==
    /\ ~CoordSync
    /\ nested # <<>>
    /\ LET urls == fetchSitemapUrls(Head(nested), config.url)
           new == SelectSeq(urls, LAMBDA u : u \notin visited
                                              /\ isSameDomain(u, config.url))
       IN /\ queue' = queue \o [i \in 1..Len(new) |-> QueueItem(new[i], 0)]
          /\ log(IF Len(urls) > 0
                 THEN <<LogEntry("success", "Found URLs in sitemap")>>
                 ELSE <<>>)
    /\ nested' = Tail(nested)
    /\ UNCHANGED <<pureVars, loginVars, config, cpc, usePuppeteer, browser, scanControlStore,
                   scanResultsStore, visited, results, activePromises,
                   lastQueueSize, noProgressCount, totalErrors, totalLinksFound,
                   errorSummary, ttlTimer, faults, fetchCount>>

(***************************************************************************)
(* runParallelScan: the coordinator.                                       *)
(***************************************************************************)
\* a worker: its URL and depth, where it is, and its statusCode variable
Worker(url, depth, pc) ==
    [url |-> url, depth |-> depth, pc |-> pc, statusCode |-> 0]

LoopConditionMutantNoCap == Len(queue) > 0 \/ Len(activePromises) > 0

\* the condition of the main loop
LoopCondition ==
    (Len(queue) > 0 \/ Len(activePromises) > 0) /\ Len(results) < MAX_PAGES

CanStartMutantOneMore ==
    /\ Len(activePromises) <= MAX_CONCURRENT
    /\ Len(queue) > 0
    /\ Len(results) < MAX_PAGES

\* the condition of the worker-start loop
CanStart ==
    /\ Len(activePromises) < MAX_CONCURRENT
    /\ Len(queue) > 0
    /\ Len(results) < MAX_PAGES

\* the stuck-queue check that follows waitIfPaused
StuckCheck ==
    /\ IF Len(queue) = lastQueueSize /\ Len(activePromises) = 0
       THEN IF noProgressCount + 1 > StuckThreshold
            THEN /\ noProgressCount' = 0
                 /\ log(<<LogEntry("warning",
                                   "Queue appears stuck, forcing continuation")>>)
            ELSE /\ noProgressCount' = noProgressCount + 1
                 /\ log(<<>>)
       ELSE /\ noProgressCount' = 0
            /\ log(<<>>)
    /\ lastQueueSize' = Len(queue)

WaitIfPausedMutantIgnoresStop ==
    LET control == getScanControl(scanId)
    IN IF control.isPaused
       THEN /\ cpc' = "paused"
            /\ UNCHANGED <<logs, scanLogsStore, noProgressCount, lastQueueSize>>
       ELSE /\ cpc' = "start"
            /\ StuckCheck

WaitIfPausedMutantIgnoresPause ==
    LET control == getScanControl(scanId)
    IN IF control.isStopped
       THEN /\ cpc' = "rejected"
            /\ UNCHANGED <<logs, scanLogsStore, noProgressCount, lastQueueSize>>
       ELSE /\ cpc' = "start"
            /\ StuckCheck

WaitIfPausedMutantPauseFirst ==
    LET control == getScanControl(scanId)
    IN IF control.isPaused
       THEN /\ cpc' = "paused"
            /\ UNCHANGED <<logs, scanLogsStore, noProgressCount, lastQueueSize>>
       ELSE IF control.isStopped
       THEN /\ cpc' = "rejected"
            /\ UNCHANGED <<logs, scanLogsStore, noProgressCount, lastQueueSize>>
       ELSE /\ cpc' = "start"
            /\ StuckCheck

WaitIfPausedMutantStaysAsleep ==
    LET control == getScanControl(scanId)
    IN IF control.isStopped
       THEN /\ cpc' = "rejected"
            /\ UNCHANGED <<logs, scanLogsStore, noProgressCount, lastQueueSize>>
       ELSE IF control.isPaused \/ cpc = "paused"
       THEN /\ cpc' = "paused"
            /\ UNCHANGED <<logs, scanLogsStore, noProgressCount, lastQueueSize>>
       ELSE /\ cpc' = "start"
            /\ StuckCheck

\* waitIfPaused, one poll: throw on stop (nothing catches it: scanWebsite
\* rejects), sleep on pause, go on otherwise.
WaitIfPaused ==
    LET control == getScanControl(scanId)
    IN IF control.isStopped
       THEN /\ cpc' = "rejected"
            /\ UNCHANGED <<logs, scanLogsStore, noProgressCount, lastQueueSize>>
       ELSE IF control.isPaused
       THEN /\ cpc' = "paused"
            /\ UNCHANGED <<logs, scanLogsStore, noProgressCount, lastQueueSize>>
       ELSE /\ cpc' = "start"
            /\ StuckCheck

\* The top of the main loop: leave it, or poll the control flags.
LoopTop ==
    /\ cpc = "top"
    /\ IF LoopCondition
       THEN WaitIfPaused
       ELSE /\ cpc' = "drain"
            /\ UNCHANGED <<logs, scanLogsStore, noProgressCount, lastQueueSize>>
    /\ UNCHANGED <<pureVars, loginVars, config, usePuppeteer, browser, scanControlStore,
                   scanResultsStore, queue, visited, results, activePromises,
                   totalErrors, totalLinksFound, errorSummary, nested, ttlTimer, faults, fetchCount>>

\* The 100 ms sleep of waitIfPaused has elapsed and the flags have changed.
PausePoll ==
    /\ cpc = "paused"
    /\ LET control == getScanControl(scanId)
       IN control.isStopped \/ ~control.isPaused
    /\ WaitIfPaused
    /\ UNCHANGED <<pureVars, loginVars, config, usePuppeteer, browser, scanControlStore,
                   scanResultsStore, queue, visited, results, activePromises,
                   totalErrors, totalLinksFound, errorSummary, nested, ttlTimer, faults, fetchCount>>

ScanStartMutantNoVisitedCheck(item, vis) ==
    IF item.depth > MAX_DEPTH
    THEN [logs |-> <<LogEntry("info", "scanSingleUrl called"),
                     LogEntry("info", "Skipping URL (max depth reached)")>>,
          visited |-> vis, pc |-> "noop"]
    ELSE IF isStaticFile(item.url)
    THEN [logs |-> <<LogEntry("info", "scanSingleUrl called"),
                     LogEntry("warning", "Skipping static file URL")>>,
          visited |-> vis \cup {item.url}, pc |-> "noop"]
    ELSE [logs |-> <<LogEntry("info", "scanSingleUrl called"),
                     LogEntry("info", "Scanning URL")>>,
          visited |-> vis \cup {item.url},
          pc |-> IF usePuppeteer /\ browser = "open" THEN "goto" ELSE "fetch"]

ScanStartMutantNoStaticCheck(item, vis) ==
    IF item.depth > MAX_DEPTH
    THEN [logs |-> <<LogEntry("info", "scanSingleUrl called"),
                     LogEntry("info", "Skipping URL (max depth reached)")>>,
          visited |-> vis, pc |-> "noop"]
    ELSE IF item.url \in vis
    THEN [logs |-> <<LogEntry("info", "scanSingleUrl called"),
                     LogEntry("info", "Skipping already visited URL")>>,
          visited |-> vis, pc |-> "noop"]
    ELSE [logs |-> <<LogEntry("info", "scanSingleUrl called"),
                     LogEntry("info", "Scanning URL")>>,
          visited |-> vis \cup {item.url},
          pc |-> IF usePuppeteer /\ browser = "open" THEN "goto" ELSE "fetch"]

ScanStartMutantNoDepthGuard(item, vis) ==
    IF item.url \in vis
    THEN [logs |-> <<LogEntry("info", "scanSingleUrl called"),
                     LogEntry("info", "Skipping already visited URL")>>,
          visited |-> vis, pc |-> "noop"]
    ELSE IF isStaticFile(item.url)
    THEN [logs |-> <<LogEntry("info", "scanSingleUrl called"),
                     LogEntry("warning", "Skipping static file URL")>>,
          visited |-> vis \cup {item.url}, pc |-> "noop"]
    ELSE [logs |-> <<LogEntry("info", "scanSingleUrl called"),
                     LogEntry("info", "Scanning URL")>>,
          visited |-> vis \cup {item.url},
          pc |-> IF usePuppeteer /\ browser = "open" THEN "goto" ELSE "fetch"]

\* scanSingleUrl up to its first await, for the entry just dequeued:
\* what it logs, what visited becomes, and the worker's position.
ScanStart(item, vis) ==
    IF item.depth > MAX_DEPTH
    THEN [logs |-> <<LogEntry("info", "scanSingleUrl called"),
                     LogEntry("info", "Skipping URL (max depth reached)")>>,
          visited |-> vis, pc |-> "noop"]
    ELSE IF item.url \in vis
    THEN [logs |-> <<LogEntry("info", "scanSingleUrl called"),
                     LogEntry("info", "Skipping already visited URL")>>,
          visited |-> vis, pc |-> "noop"]
    ELSE IF isStaticFile(item.url)
    THEN [logs |-> <<LogEntry("info", "scanSingleUrl called"),
                     LogEntry("warning", "Skipping static file URL")>>,
          visited |-> vis \cup {item.url}, pc |-> "noop"]
    ELSE [logs |-> <<LogEntry("info", "scanSingleUrl called"),
                     LogEntry("info", "Scanning URL")>>,
          visited |-> vis \cup {item.url},
          pc |-> IF usePuppeteer /\ browser = "open" THEN "goto" ELSE "fetch"]

StartWorkerMutantLifo ==
    /\ cpc = "start"
    /\ CanStart
    /\ LET item == queue[Len(queue)]
           st == ScanStart(item, visited)
       IN /\ queue' = SubSeq(queue, 1, Len(queue) - 1)
          /\ visited' = st.visited
          /\ log(<<LogEntry("info", "Processing queue item")>> \o st.logs)
          /\ activePromises' = Append(activePromises, Worker(item.url, item.depth, st.pc))
          /\ fetchCount' = IF st.pc = "noop" THEN fetchCount
                           ELSE [fetchCount EXCEPT ![item.url] = @ + 1]
    /\ UNCHANGED <<pureVars, loginVars, config, cpc, usePuppeteer, browser, scanControlStore,
                   scanResultsStore, results, lastQueueSize, noProgressCount,
                   totalErrors, totalLinksFound, errorSummary, nested, ttlTimer,
                   faults>>

\* One turn of the worker-start loop: queue.shift() and the start of
\* scanSingleUrl for that entry.
StartWorker ==
    /\ cpc = "start"
    /\ CanStart
    /\ LET item == Head(queue)
           st == ScanStart(item, visited)
       IN /\ queue' = Tail(queue)
          /\ visited' = st.visited
          /\ log(<<LogEntry("info", "Processing queue item")>> \o st.logs)
          /\ activePromises' = Append(activePromises, Worker(item.url, item.depth, st.pc))
          /\ fetchCount' = IF st.pc = "noop" THEN fetchCount
                           ELSE [fetchCount EXCEPT ![item.url] = @ + 1]
    /\ UNCHANGED <<pureVars, loginVars, config, cpc, usePuppeteer, browser, scanControlStore,
                   scanResultsStore, results, lastQueueSize, noProgressCount,
                   totalErrors, totalLinksFound, errorSummary, nested, ttlTimer,
                   faults>>

Pending(ws) == SelectSeq(ws, LAMBDA w : w.pc # "noop")

\* The worker-start loop has ended: the coordinator awaits a worker
\* (with the 2 s timer when a slot is free), retries, or leaves the loop.
\* Workers that returned without awaiting anything have settled by the
\* time the coordinator's await resumes.
AwaitWorkers ==
    /\ cpc = "start"
    /\ ~CanStart
    /\ activePromises' = Pending(activePromises)
    /\ IF Len(activePromises) >= MAX_CONCURRENT
       THEN /\ cpc' = IF Len(activePromises') < Len(activePromises)
                      THEN "top" ELSE "race"
            /\ log(<<>>)
       ELSE IF Len(activePromises) > 0
       THEN /\ cpc' = IF Len(activePromises') < Len(activePromises)
                      THEN "top" ELSE "raceTimed"
            /\ log(<<>>)
       ELSE IF Len(queue) > 0
       THEN /\ cpc' = "top"
            /\ log(<<LogEntry("warning",
                              "No active promises but queue not empty - retrying")>>)
       ELSE /\ cpc' = "drain"
            /\ log(<<>>)
    /\ UNCHANGED <<pureVars, loginVars, config, usePuppeteer, browser, scanControlStore,
                   scanResultsStore, queue, visited, results, lastQueueSize,
                   noProgressCount, totalErrors, totalLinksFound, errorSummary,
                   nested, ttlTimer, faults, fetchCount>>

\* The 2 s anti-stall timer fires before any worker settles.
TimerFires ==
    /\ cpc = "raceTimed"
    /\ cpc' = "top"
    /\ UNCHANGED <<pureVars, loginVars, config, usePuppeteer, browser, scanControlStore, scanLogsStore,
                   scanResultsStore, queue, visited, results, logs, activePromises,
                   lastQueueSize, noProgressCount, totalErrors, totalLinksFound,
                   errorSummary, nested, ttlTimer, faults, fetchCount>>

\* where the handler goes after "Parallel scan completed"
AfterRun == IF browser = "open" THEN "closeBrowser" ELSE "finalize"

\* After the main loop: wait for the workers still in flight.
Drain ==
    /\ cpc = "drain"
    /\ IF Len(activePromises) > 0
       THEN /\ log(<<LogEntry("info", "Waiting for remaining scans to complete")>>)
            /\ cpc' = "allSettled"
       ELSE /\ log(<<LogEntry("info", "Parallel scan completed")>>)
            /\ cpc' = AfterRun
    /\ UNCHANGED <<pureVars, loginVars, config, usePuppeteer, browser, scanControlStore,
                   scanResultsStore, queue, visited, results, activePromises,
                   lastQueueSize, noProgressCount, totalErrors, totalLinksFound,
                   errorSummary, nested, ttlTimer, faults, fetchCount>>

\* Promise.allSettled has resolved.
Settled ==
    /\ cpc = "settled"
    /\ log(<<LogEntry("info", "Parallel scan completed")>>)
    /\ cpc' = AfterRun
    /\ UNCHANGED <<pureVars, loginVars, config, usePuppeteer, browser, scanControlStore,
                   scanResultsStore, queue, visited, results, activePromises,
                   lastQueueSize, noProgressCount, totalErrors, totalLinksFound,
                   errorSummary, nested, ttlTimer, faults, fetchCount>>

\* browser.close() resolves or throws.
CloseBrowser ==
    /\ cpc = "closeBrowser"
    /\ \E ok \in BOOLEAN :
          IF ok
          THEN /\ browser' = "closed"
               /\ log(<<LogEntry("info", "Closed Puppeteer browser")>>)
          ELSE /\ browser' = browser
               /\ log(<<LogEntry("warning", "Error closing browser")>>)
    /\ cpc' = "finalize"
    /\ UNCHANGED <<pureVars, loginVars, config, usePuppeteer, scanControlStore, scanResultsStore,
                   queue, visited, results, activePromises, lastQueueSize,
                   noProgressCount, totalErrors, totalLinksFound, errorSummary,
                   nested, ttlTimer, faults, fetchCount>>

\* The eviction timer is set, the final summary is logged, the results
\* store is updated and scanWebsite returns.
Finalize ==
    /\ cpc = "finalize"
    /\ ttlTimer' = TRUE
    /\ log(<<LogEntry("info", IF getScanControl(scanId).isStopped
                              THEN "Scan stopped by user"
                              ELSE "Scan completed")>>)
    /\ updateResultsStore(results)
    /\ cpc' = "returned"
    /\ UNCHANGED <<pureVars, loginVars, config, usePuppeteer, browser, scanControlStore, queue,
                   visited, results, activePromises, lastQueueSize,
                   noProgressCount, totalErrors, totalLinksFound, errorSummary,
                   nested, faults, fetchCount>>

\* The retention time has elapsed: the session's stores are deleted.
Evict ==
    /\ ~CoordSync
    /\ ttlTimer
    /\ ttlTimer' = FALSE
    /\ scanLogsStore' = [scanLogsStore EXCEPT ![scanId] = Absent]
    /\ scanResultsStore' = [scanResultsStore EXCEPT ![scanId] = Absent]
    /\ cleanupScanControl(scanId)
    /\ UNCHANGED <<pureVars, loginVars, config, cpc, usePuppeteer, browser, queue, visited, results,
                   logs, activePromises, lastQueueSize, noProgressCount,
                   totalErrors, totalLinksFound, errorSummary, nested, faults, fetchCount>>

(***************************************************************************)
(* scanSingleUrl: the workers.                                             *)
(***************************************************************************)
NoBody == [present |-> FALSE, len |-> 0]

SubstringMutantNoCut(len) == [present |-> TRUE, len |-> len]

\* html.substring(0, 1000)
Substring(len) == [present |-> TRUE, len |-> Min(len, BodyPrefixLen)]

ScanResult(url, status, statusCode, links, responseBody, c, depth) ==
    [url |-> url, status |-> status, statusCode |-> statusCode, links |-> links,
     responseBody |-> responseBody, errorType |-> c.type,
     errorSeverity |-> c.severity, errorRetryable |-> c.retryable,
     depth |-> depth]

NoClassification == Classification("", "", FALSE)

RemoveAt(ws, i) == SubSeq(ws, 1, i - 1) \o SubSeq(ws, i + 1, Len(ws))

\* A worker's promise settles: it leaves activePromises, and a coordinator
\* awaiting Promise.race or Promise.allSettled resumes.
SettleWorker(i) ==
    /\ activePromises' = RemoveAt(activePromises, i)
    /\ cpc' = IF cpc \in {"race", "raceTimed"} THEN "top"
              ELSE IF cpc = "allSettled" /\ Len(activePromises) = 1 THEN "settled"
              ELSE cpc

\* the string leaves of a JSON body that look like URLs, normalized
extractUrlsFromJson(leaves, currentUrl) ==
    LET urlLike == SelectSeq(leaves, LAMBDA h :
                       h.proto \in {"http:", "https:"}
                          \/ (h.proto = "" /\ h.host = "" /\ h.rooted
                                /\ h.path # <<>>))
        norm == [i \in 1..Len(urlLike) |-> normalizeUrl(urlLike[i], currentUrl)]
    IN SelectSeq(norm, LAMBDA n : n # Null /\ isSameDomain(n, config.url)
                                    /\ ~isStaticFile(n))

PassesFilter(u) ==
    config.pathRegexFilter = NoFilter \/ shouldIncludeUrl(u, config.pathRegexFilter)

AtDepthMutantParentDepth(urls, depth) ==
    [i \in 1..Len(urls) |-> QueueItem(urls[i], depth - 1)]

AtDepth(urls, depth) == [i \in 1..Len(urls) |-> QueueItem(urls[i], depth)]

\* the entries queued for the URLs found in a JSON response
JsonPush(jsonUrls, depth, vis) ==
    AtDepth(SelectSeq(jsonUrls, LAMBDA u : u \notin vis /\ isSameDomain(u, config.url)
                                             /\ ~isStaticFile(u) /\ PassesFilter(u)),
            depth + 1)

\* the entry queued for the target of a Location header
LocationPush(location, currentUrl, depth, vis) ==
    LET redirectUrl == normalizeUrl(location, currentUrl)
    IN IF /\ location # NoHref
          /\ redirectUrl # Null
          /\ isSameDomain(redirectUrl, config.url)
          /\ redirectUrl \notin vis
          /\ ~isStaticFile(redirectUrl)
          /\ PassesFilter(redirectUrl)
       THEN <<QueueItem(redirectUrl, depth + 1)>>
       ELSE <<>>

\* extractLinksFromHtml / extractLinksFromPage: the tokens, deduplicated
extractLinks(page) == Dedup(page.hrefs)

LinkLoopMutantNoVisitedCheck(links, currentUrl, depth, vis) ==
    LET norm == [i \in 1..Len(links) |-> normalizeUrl(links[i], currentUrl)]
        cand == SelectSeq(norm, LAMBDA n : n # Null /\ isSameDomain(n, config.url))
        kept == SelectSeq(cand, LAMBDA n : ~isStaticFile(n) /\ PassesFilter(n))
    IN [normalizedLinks |-> kept,
        filteredCount |-> Len(cand) - Len(kept),
        push |-> IF depth < MAX_DEPTH THEN AtDepth(kept, depth + 1) ELSE <<>>]

LinkLoopMutantDropsFirst(links, currentUrl, depth, vis) ==
    LET norm == [i \in 1..Len(links) |-> normalizeUrl(links[i], currentUrl)]
        cand == SelectSeq(norm, LAMBDA n : n # Null /\ isSameDomain(n, config.url)
                                            /\ n \notin vis)
        kept == SelectSeq(cand, LAMBDA n : ~isStaticFile(n) /\ PassesFilter(n))
    IN [normalizedLinks |-> kept,
        filteredCount |-> Len(cand) - Len(kept),
        push |-> IF depth < MAX_DEPTH
                 THEN AtDepth(SubSeq(kept, 2, Len(kept)), depth + 1)
                 ELSE <<>>]

\* the loop over the extracted links: the links kept, the number filtered
\* out, and the entries queued
LinkLoop(links, currentUrl, depth, vis) ==
    LET norm == [i \in 1..Len(links) |-> normalizeUrl(links[i], currentUrl)]
        cand == SelectSeq(norm, LAMBDA n : n # Null /\ isSameDomain(n, config.url)
                                            /\ n \notin vis)
        kept == SelectSeq(cand, LAMBDA n : ~isStaticFile(n) /\ PassesFilter(n))
    IN [normalizedLinks |-> kept,
        filteredCount |-> Len(cand) - Len(kept),
        push |-> IF depth < MAX_DEPTH THEN AtDepth(kept, depth + 1) ELSE <<>>]

\* the links the Rich path stores on its result
RichResultLinks(pageLinks, currentUrl) ==
    LET norm == [i \in 1..Len(pageLinks) |-> normalizeUrl(pageLinks[i], currentUrl)]
    IN SelectSeq(norm, LAMBDA n : n # Null /\ isSameDomain(n, config.url))

StatusLogs(statusCode, suffix) ==
    IF statusCode >= 200 /\ statusCode < 300
    THEN <<LogEntry("success", "Scan successful" \o suffix)>>
    ELSE IF statusCode >= 400 /\ statusCode < 500
    THEN <<LogEntry("warning", "Client error" \o suffix)>>
    ELSE IF statusCode >= 500
    THEN <<LogEntry("error", "Server error" \o suffix)>>
    ELSE <<LogEntry("info", "Scan completed" \o suffix)>>

SoftErrorLogs(raw, corrected) ==
    IF raw # corrected
    THEN <<LogEntry("warning", "Detected error status from content (status was 200)")>>
    ELSE <<>>

PageResultMutantRawStatus(w, statusCode, links, len) ==
    LET resultStatus == IF w.statusCode >= 200 /\ w.statusCode < 300
                        THEN "success" ELSE "error"
        c == IF resultStatus = "error" /\ statusCode # 0
             THEN classifyError(Err({}, ""), statusCode)
             ELSE NoClassification
    IN ScanResult(w.url, resultStatus, statusCode, links,
                  IF statusCode >= 400 /\ statusCode < 600
                  THEN Substring(len) ELSE NoBody,
                  c, w.depth)

\* the result built on the success path, for the corrected status code
PageResult(w, statusCode, links, len) ==
    LET resultStatus == IF statusCode >= 200 /\ statusCode < 300
                        THEN "success" ELSE "error"
        c == IF resultStatus = "error" /\ statusCode # 0
             THEN classifyError(Err({}, ""), statusCode)
             ELSE NoClassification
    IN ScanResult(w.url, resultStatus, statusCode, links,
                  IF statusCode >= 400 /\ statusCode < 600
                  THEN Substring(len) ELSE NoBody,
                  c, w.depth)

CatchErrorMutantAborts(i, e, pre) ==
    LET w == activePromises[i]
        c == classifyError(e, Undefined)
    IN /\ totalErrors' = totalErrors + 1
       /\ errorSummary' = recordError(errorSummary, w.url, e, Undefined)
       /\ log(pre \o <<LogEntry("error", "Error in parallel scan")>>)
       /\ results' = results
       /\ updateResultsStore(results')
       /\ activePromises' = RemoveAt(activePromises, i)
       /\ cpc' = "rejected"

\* the catch block of scanSingleUrl for error e, after the entries pre
\* were logged
CatchError(i, e, pre) ==
    LET w == activePromises[i]
        c == classifyError(e, Undefined)
        errorStatusCode == IF c.type = "timeout" THEN 408
                           ELSE IF c.type = "network" THEN 503
                           ELSE IF c.type = "server" THEN 500
                           ELSE Undefined
        logType == IF c.severity = "critical" THEN "critical"
                   ELSE IF c.severity = "high" THEN "error"
                   ELSE IF c.severity = "medium" THEN "warning"
                   ELSE "error"
    IN /\ totalErrors' = totalErrors + 1
       /\ errorSummary' = recordError(errorSummary, w.url, e, Undefined)
       /\ log(pre \o <<LogEntry(logType, "Error scanning URL")>>)
       /\ results' = Append(results,
                            ScanResult(w.url, "error", errorStatusCode, <<>>,
                                       NoBody, c, w.depth))
       /\ updateResultsStore(results')
       /\ SettleWorker(i)

UnchangedByWorker ==
    UNCHANGED <<pureVars, loginVars, config, usePuppeteer, browser, scanControlStore, visited,
                lastQueueSize, noProgressCount, nested, ttlTimer, fetchCount>>

\* a step of a worker fails
Fault ==
    /\ faults < MaxFaults
    /\ faults' = faults + 1

\* a worker step that neither settles nor appends a result
StepTo(i, pc, statusCode) ==
    /\ activePromises' =
          [activePromises EXCEPT ![i] = [@ EXCEPT !.pc = pc, !.statusCode = statusCode]]
    /\ UNCHANGED <<cpc, results, scanResultsStore>>

\* Lite: fetchWithTimeout resolves with the response, or throws.
FetchDone(i) ==
    /\ ~CoordSync
    /\ i \in 1..Len(activePromises)
    /\ activePromises[i].pc = "fetch"
    /\ LET w == activePromises[i]
           page == Site(w.url)
           push == LocationPush(page.location, w.url, w.depth, visited)
       IN \/ /\ queue' = queue \o push
             /\ log((IF push # <<>>
                     THEN <<LogEntry("info", "Found redirect URL")>> ELSE <<>>)
                    \o <<LogEntry("info", "Fetch response received")>>)
             /\ StepTo(i, "body", page.status)
             /\ UNCHANGED <<totalErrors, totalLinksFound, errorSummary, faults>>
          \/ \E e \in FetchErrors :
                /\ Fault
                /\ CatchError(i, e, <<>>)
                /\ UNCHANGED <<queue, totalLinksFound>>
    /\ UnchangedByWorker

\* the part of a page scan shared by the two strategies: link loop,
\* counters, result
FinishPage(i, statusCode, jsonPush, preLogs, rich) ==
    LET w == activePromises[i]
        page == Site(w.url)
        pageLinks == extractLinks(page)
        loop == LinkLoop(pageLinks, w.url, w.depth, visited)
        linkCount == Len(loop.normalizedLinks)
        result == PageResult(w, statusCode,
                             IF rich THEN RichResultLinks(pageLinks, w.url)
                             ELSE loop.normalizedLinks,
                             page.len)
    IN /\ queue' = queue \o jsonPush \o loop.push
       /\ totalLinksFound' = totalLinksFound + linkCount
       /\ log(preLogs
              \o (IF loop.filteredCount > 0
                  THEN <<LogEntry("info", "Filtered URLs (static files + path regex)")>>
                  ELSE <<>>)
              \o <<LogEntry("info", IF Len(loop.push) > 0
                                    THEN "Found new links (will be scanned)"
                                    ELSE "Found new links")>>)
       /\ errorSummary' = IF result.status = "error" /\ statusCode # 0
                          THEN recordError(errorSummary, w.url, Err({}, ""), statusCode)
                          ELSE errorSummary
       /\ results' = Append(results, result)
       /\ updateResultsStore(results')

\* Lite: the body has been read: JSON URLs, soft-error detection, link
\* loop and result.
BodyDone(i) ==
    /\ ~CoordSync
    /\ i \in 1..Len(activePromises)
    /\ activePromises[i].pc = "body"
    /\ LET w == activePromises[i]
           page == Site(w.url)
           jsonUrls == IF page.json
                       THEN extractUrlsFromJson(page.jsonUrls, w.url) ELSE <<>>
           statusCode == softErrorStatus(w.statusCode, page.markers)
       IN /\ FinishPage(i, statusCode,
                        JsonPush(jsonUrls, w.depth, visited),
                        (IF Len(jsonUrls) > 0
                         THEN <<LogEntry("info", "Found URLs in JSON response")>>
                         ELSE <<>>)
                        \o SoftErrorLogs(w.statusCode, statusCode)
                        \o StatusLogs(statusCode, ""),
                        FALSE)
          /\ totalErrors' = IF statusCode >= 500 THEN totalErrors + 1 ELSE totalErrors
          /\ SettleWorker(i)
    /\ UNCHANGED faults
    /\ UnchangedByWorker

\* Rich: browser.newPage and page.goto have run.  The navigation gives a
\* response, times out with salvageable content (the page counts as 200),
\* or fails; newPage itself may fail.
GotoDone(i) ==
    /\ ~CoordSync
    /\ i \in 1..Len(activePromises)
    /\ activePromises[i].pc = "goto"
    /\ LET w == activePromises[i]
           page == Site(w.url)
       IN \/ /\ log(<<LogEntry("info", "Using Puppeteer to scan page"),
                      LogEntry("info", "Response received"),
                      LogEntry("info", "Puppeteer response status")>>)
             /\ StepTo(i, IF page.json THEN "evaluate" ELSE "extract", page.status)
             /\ UNCHANGED <<queue, totalErrors, totalLinksFound, errorSummary, faults>>
          \/ /\ log(<<LogEntry("info", "Using Puppeteer to scan page"),
                      LogEntry("warning", "Puppeteer navigation timeout"),
                      LogEntry("warning", "No response object, using default status 200")>>)
             /\ Fault
             /\ StepTo(i, "extract", 200)
             /\ UNCHANGED <<queue, totalErrors, totalLinksFound, errorSummary>>
          \/ /\ Fault
             /\ CatchError(i, ETimeout,
                           <<LogEntry("info", "Using Puppeteer to scan page"),
                             LogEntry("error", "Error scanning with Puppeteer")>>)
             /\ UNCHANGED <<queue, totalLinksFound>>
          \/ /\ Fault
             /\ CatchError(i, EFetch, <<>>)
             /\ UNCHANGED <<queue, totalLinksFound>>
    /\ UnchangedByWorker

\* Rich: the JSON text of the page has been read and its URLs are queued.
EvaluateDone(i) ==
    /\ ~CoordSync
    /\ i \in 1..Len(activePromises)
    /\ activePromises[i].pc = "evaluate"
    /\ LET w == activePromises[i]
           page == Site(w.url)
           jsonUrls == extractUrlsFromJson(page.jsonUrls, w.url)
       IN /\ queue' = queue \o JsonPush(jsonUrls, w.depth, visited)
          /\ log(IF Len(jsonUrls) > 0
                 THEN <<LogEntry("info", "Found URLs in JSON response (Puppeteer)")>>
                 ELSE <<>>)
          /\ StepTo(i, "extract", w.statusCode)
    /\ UNCHANGED <<totalErrors, totalLinksFound, errorSummary, faults>>
    /\ UnchangedByWorker

\* Rich: page.content() and extractLinksFromPage have resolved (the code
\* between the two reads and writes only the logs and totalErrors):
\* soft-error detection, link loop and result; the page is being closed.
ExtractDone(i) ==
    /\ ~CoordSync
    /\ i \in 1..Len(activePromises)
    /\ activePromises[i].pc = "extract"
    /\ LET w == activePromises[i]
           page == Site(w.url)
           statusCode == softErrorStatus(w.statusCode, page.markers)
       IN /\ FinishPage(i, statusCode, <<>>,
                        SoftErrorLogs(w.statusCode, statusCode)
                        \o StatusLogs(statusCode, " with Puppeteer"),
                        TRUE)
          /\ totalErrors' = IF statusCode >= 500 THEN totalErrors + 1 ELSE totalErrors
          /\ activePromises' =
                [activePromises EXCEPT
                    ![i] = [@ EXCEPT !.pc = "closing", !.statusCode = statusCode]]
    /\ UNCHANGED <<cpc, faults>>
    /\ UnchangedByWorker

CloseDoneMutantPushesLate(i) ==
    /\ ~CoordSync
    /\ i \in 1..Len(activePromises)
    /\ activePromises[i].pc = "closing"
    /\ \/ /\ SettleWorker(i)
          /\ queue' = queue \o LinkLoop(extractLinks(Site(activePromises[i].url)),
                                         activePromises[i].url,
                                         activePromises[i].depth, visited).push
          /\ UNCHANGED <<results, scanResultsStore, logs, scanLogsStore,
                         totalErrors, totalLinksFound, errorSummary, faults>>
       \/ /\ Fault
          /\ CatchError(i, EClose,
                        <<LogEntry("error", "Error scanning with Puppeteer")>>)
          /\ UNCHANGED <<queue, totalLinksFound>>
    /\ UnchangedByWorker

\* Rich: scanPage.close() resolves, or throws into the catch blocks.
CloseDone(i) ==
    /\ ~CoordSync
    /\ i \in 1..Len(activePromises)
    /\ activePromises[i].pc = "closing"
    /\ \/ /\ SettleWorker(i)
          /\ UNCHANGED <<queue, results, scanResultsStore, logs, scanLogsStore,
                         totalErrors, totalLinksFound, errorSummary, faults>>
       \/ /\ Fault
          /\ CatchError(i, EClose,
                        <<LogEntry("error", "Error scanning with Puppeteer")>>)
          /\ UNCHANGED <<queue, totalLinksFound>>
    /\ UnchangedByWorker

Next ==
    \/ ScanWebsiteEntry
    \/ LaunchBrowser
    \/ SeedDiscovery
    \/ NestedSitemapArrives
    \/ LoopTop
    \/ PausePoll
    \/ StartWorker
    \/ AwaitWorkers
    \/ TimerFires
    \/ Drain
    \/ Settled
    \/ CloseBrowser
    \/ Finalize
    \/ Evict
    \/ \E id \in ScanIds : pauseScan(id)
    \/ \E id \in ScanIds : resumeScan(id)
    \/ \E id \in ScanIds : stopScan(id)
    \/ \E i \in 1..MaxConcurrentBound : FetchDone(i)
    \/ \E i \in 1..MaxConcurrentBound : BodyDone(i)
    \/ \E i \in 1..MaxConcurrentBound : GotoDone(i)
    \/ \E i \in 1..MaxConcurrentBound : EvaluateDone(i)
    \/ \E i \in 1..MaxConcurrentBound : ExtractDone(i)
    \/ \E i \in 1..MaxConcurrentBound : CloseDone(i)

Spec == Init /\ [][Next]_vars

(***************************************************************************)
(* Crawls that are deep and wide enough to reach every page of the site:   *)
(* the second specification starts from these configurations.              *)
(***************************************************************************)
DeepPagesBound == 5
DeepDepthBound == 4

DeepConfigs ==
    [url : {UHome},
     maxDepth : {DeepDepthBound},
     maxPages : {DeepPagesBound},
     maxConcurrent : 1..MaxConcurrentBound,
     pathRegexFilter : Filters,
     usePuppeteer : BOOLEAN,
     login : {FALSE},
     scanId : ScanIds]

InitDeep ==
    /\ config \in DeepConfigs
    /\ cpc = "idle"
    /\ usePuppeteer = config.usePuppeteer
    /\ browser = "none"
    /\ scanControlStore = [id \in ScanIds |-> NoControl]
    /\ scanLogsStore = [id \in ScanIds |-> Absent]
    /\ scanResultsStore = [id \in ScanIds |-> Absent]
    /\ queue = <<>>
    /\ visited = {}
    /\ results = <<>>
    /\ logs = <<>>
    /\ activePromises = <<>>
    /\ lastQueueSize = 0
    /\ noProgressCount = 0
    /\ totalErrors = 0
    /\ totalLinksFound = 0
    /\ errorSummary = EmptyErrorSummary
    /\ nested = <<>>
    /\ ttlTimer = FALSE
    /\ faults = 0
    /\ fetchCount = [u \in SiteUrls |-> 0]
    /\ sessionCookies = <<>>
    /\ loginRedirectUrl = Null
    /\ startUrl = config.url
    /\ currentCookies = <<>>
    /\ csrfToken = ""
    /\ retryCookieMap = <<>>
    /\ loginHistory = <<>>
    /\ called = NoCall
    /\ returned = <<>>

SpecDeep == InitDeep /\ [][Next]_vars

(***************************************************************************)
(* Sessions with a login: the third specification starts from              *)
(* configurations that carry loginUrl, username and password, and follows  *)
(* scanWebsite from its entry through the login to the seeding of the      *)
(* frontier, where runParallelScan begins with the start URL queued.       *)
(***************************************************************************)
LoginConfigs ==
    [url : {UHome},
     maxDepth : {0},
     maxPages : {MaxPagesBound},
     maxConcurrent : {MaxConcurrentBound},
     pathRegexFilter : Filters,
     usePuppeteer : BOOLEAN,
     login : {TRUE},
     scanId : ScanIds]

InitLogin ==
    /\ config \in LoginConfigs
    /\ cpc = "idle"
    /\ usePuppeteer = config.usePuppeteer
    /\ browser = "none"
    /\ scanControlStore = [id \in ScanIds |-> NoControl]
    /\ scanLogsStore = [id \in ScanIds |-> Absent]
    /\ scanResultsStore = [id \in ScanIds |-> Absent]
    /\ queue = <<>>
    /\ visited = {}
    /\ results = <<>>
    /\ logs = <<>>
    /\ activePromises = <<>>
    /\ lastQueueSize = 0
    /\ noProgressCount = 0
    /\ totalErrors = 0
    /\ totalLinksFound = 0
    /\ errorSummary = EmptyErrorSummary
    /\ nested = <<>>
    /\ ttlTimer = FALSE
    /\ faults = 0
    /\ fetchCount = [u \in SiteUrls |-> 0]
    /\ sessionCookies = <<>>
    /\ loginRedirectUrl = Null
    /\ startUrl = config.url
    /\ currentCookies = <<>>
    /\ csrfToken = ""
    /\ retryCookieMap = <<>>
    /\ loginHistory = <<>>
    /\ called = NoCall
    /\ returned = <<>>

NextLogin ==
    \/ BrowserLogin
    \/ BrowserVerify
    \/ LoginPageDone
    \/ LoginPostDone
    \/ RetryPageDone
    \/ RetryPostDone
    \/ VerifyDone
    \/ ScanWebsiteEntry
    \/ LaunchBrowser
    \/ SeedDiscovery
    \/ \E id \in ScanIds : pauseScan(id)
    \/ \E id \in ScanIds : resumeScan(id)
    \/ \E id \in ScanIds : stopScan(id)

SpecLogin == InitLogin /\ [][NextLogin]_vars

(***************************************************************************)
(* The helpers on their own: the fourth specification applies               *)
(* classifyError, the soft-error correction with the result it leads to,   *)
(* and recordError followed by the return of scanWebsite, to arguments     *)
(* drawn from the sets below.                                              *)
(***************************************************************************)
MaxRecorded == 52

ClassifyStatuses ==
    {Undefined, 0, 200, 302, 400, 401, 403, 404, 408, 429, 499, 500, 503}

ClassifyMarkers ==
    {"timeout", "network", "server error", "internal error", "memory", "fatal"}

ClassifyCodes == {"", "ETIMEDOUT", "TimeoutError", "ECONNABORTED", "EOTHER"}

ClassifyErrors == {Err(m, c) : m \in SUBSET ClassifyMarkers, c \in ClassifyCodes}

SoftStatuses == {200, 201, 204, 301, 404, 500}

SoftMarkers ==
    {"404", "not found", "page not found", "trang khong ton tai", "forbidden",
     "server error", "internal server error", "unauthorized"}

\* a body that contains a phrase contains the phrases inside it
SoftBodies ==
    {m \in SUBSET SoftMarkers :
        /\ "page not found" \in m => "not found" \in m
        /\ "internal server error" \in m => "server error" \in m}

\* the errors recordError is applied to: [url, error, statusCode]
RecordedError(url, error, statusCode) ==
    [url |-> url, error |-> error, statusCode |-> statusCode]

RecordedErrors ==
    <<RecordedError(UA, ETimeout, Undefined),
      RecordedError(UC, EFetch, 500),
      RecordedError(UB, Err({"fatal"}, ""), Undefined)>>

\* the errorSummary of the value scanWebsite returns
ReturnedErrorSummary(summary) ==
    [summary EXCEPT !.recentErrors = LastN(summary.recentErrors, ReturnedErrorsCap)]

UnchangedByPure ==
    UNCHANGED <<loginVars, config, cpc, usePuppeteer, browser, scanControlStore,
                scanLogsStore, scanResultsStore, queue, visited, results, logs,
                activePromises, lastQueueSize, noProgressCount, totalErrors,
                totalLinksFound, nested, ttlTimer, faults, fetchCount>>

ClassifyErrorCall ==
    /\ called = NoCall
    /\ \E e \in ClassifyErrors, statusCode \in ClassifyStatuses :
          /\ called' = Call("classifyError", <<e, statusCode>>)
          /\ returned' = classifyError(e, statusCode)
    /\ UNCHANGED errorSummary
    /\ UnchangedByPure

\* a page answered with status raw and a body containing markers, of len
\* characters, goes through the soft-error correction and into its result
SoftErrorCall ==
    /\ called = NoCall
    /\ \E raw \in SoftStatuses, markers \in SoftBodies, len \in {300, 1500} :
          /\ called' = Call("softError", <<raw, markers, len>>)
          /\ returned' = PageResult([url |-> UA, depth |-> 0],
                                    softErrorStatus(raw, markers), <<>>, len)
    /\ UNCHANGED errorSummary
    /\ UnchangedByPure

\* recordError once more; the errors come in runs, in the order of
\* RecordedErrors
RecordErrorCall ==
    /\ called.fn \in {"none", "recordError"}
    /\ Len(called.args) < MaxRecorded
    /\ \E k \in 1..Len(RecordedErrors) :
          /\ called.args # <<>> => k >= called.args[Len(called.args)]
          /\ called' = Call("recordError", Append(called.args, k))
          /\ errorSummary' = recordError(errorSummary, RecordedErrors[k].url,
                                         RecordedErrors[k].error,
                                         RecordedErrors[k].statusCode)
          /\ returned' = classifyError(RecordedErrors[k].error,
                                       RecordedErrors[k].statusCode)
    /\ UnchangedByPure

\* scanWebsite returns
ReturnCall ==
    /\ called.fn = "recordError"
    /\ called' = Call("return", called.args)
    /\ returned' = ReturnedErrorSummary(errorSummary)
    /\ UNCHANGED errorSummary
    /\ UnchangedByPure

InitPure ==
    /\ config \in {c \in Configs : /\ c.maxDepth = 0
                                   /\ c.maxPages = 0
                                   /\ c.maxConcurrent = 1
                                   /\ c.pathRegexFilter = NoFilter
                                   /\ ~c.usePuppeteer}
    /\ cpc = "idle"
    /\ usePuppeteer = config.usePuppeteer
    /\ browser = "none"
    /\ scanControlStore = [id \in ScanIds |-> NoControl]
    /\ scanLogsStore = [id \in ScanIds |-> Absent]
    /\ scanResultsStore = [id \in ScanIds |-> Absent]
    /\ queue = <<>>
    /\ visited = {}
    /\ results = <<>>
    /\ logs = <<>>
    /\ activePromises = <<>>
    /\ lastQueueSize = 0
    /\ noProgressCount = 0
    /\ totalErrors = 0
    /\ totalLinksFound = 0
    /\ errorSummary = EmptyErrorSummary
    /\ nested = <<>>
    /\ ttlTimer = FALSE
    /\ faults = 0
    /\ fetchCount = [u \in SiteUrls |-> 0]
    /\ sessionCookies = <<>>
    /\ loginRedirectUrl = Null
    /\ startUrl = config.url
    /\ currentCookies = <<>>
    /\ csrfToken = ""
    /\ retryCookieMap = <<>>
    /\ loginHistory = <<>>
    /\ called = NoCall
    /\ returned = <<>>

NextPure ==
    \/ ClassifyErrorCall
    \/ SoftErrorCall
    \/ RecordErrorCall
    \/ ReturnCall

SpecPure == InitPure /\ [][NextPure]_vars

(***************************************************************************)
(* Sessions with a malformed seed: the fifth specification starts from     *)
(* configurations whose url is the empty string and follows scanWebsite    *)
(* from its entry to the seeding of the frontier.                          *)
(***************************************************************************)
MalformedConfigs ==
    [url : {UEmpty},
     maxDepth : 0..MaxDepthBound,
     maxPages : 0..MaxPagesBound,
     maxConcurrent : 1..MaxConcurrentBound,
     pathRegexFilter : Filters,
     usePuppeteer : BOOLEAN,
     login : {FALSE},
     scanId : ScanIds]

InitMalformed ==
    /\ config \in MalformedConfigs
    /\ cpc = "idle"
    /\ usePuppeteer = config.usePuppeteer
    /\ browser = "none"
    /\ scanControlStore = [id \in ScanIds |-> NoControl]
    /\ scanLogsStore = [id \in ScanIds |-> Absent]
    /\ scanResultsStore = [id \in ScanIds |-> Absent]
    /\ queue = <<>>
    /\ visited = {}
    /\ results = <<>>
    /\ logs = <<>>
    /\ activePromises = <<>>
    /\ lastQueueSize = 0
    /\ noProgressCount = 0
    /\ totalErrors = 0
    /\ totalLinksFound = 0
    /\ errorSummary = EmptyErrorSummary
    /\ nested = <<>>
    /\ ttlTimer = FALSE
    /\ faults = 0
    /\ fetchCount = [u \in SiteUrls |-> 0]
    /\ sessionCookies = <<>>
    /\ loginRedirectUrl = Null
    /\ startUrl = config.url
    /\ currentCookies = <<>>
    /\ csrfToken = ""
    /\ retryCookieMap = <<>>
    /\ loginHistory = <<>>
    /\ called = NoCall
    /\ returned = <<>>

NextMalformed ==
    \/ ScanWebsiteEntry
    \/ LaunchBrowser
    \/ SeedDiscovery
    \/ \E id \in ScanIds : pauseScan(id)
    \/ \E id \in ScanIds : resumeScan(id)
    \/ \E id \in ScanIds : stopScan(id)

SpecMalformed == InitMalformed /\ [][NextMalformed]_vars

(***************************************************************************)
(* The crawl under the scheduling of the event loop: the fifth             *)
(* specification.  A continuation of the handler that is ready to run is   *)
(* run (the sleep of waitIfPaused and the 2 s timer elapse, an awaited     *)
(* promise that has settled resumes its awaiter), and every fetch or       *)
(* browser call of a worker completes, with an answer or an error, the     *)
(* next time the coordinator awaits.  Nothing is assumed of the control    *)
(* RPCs, of the eviction timer and of the background sitemap fetches.      *)
(***************************************************************************)
\* the steps of the scanWebsite handler itself
HandlerStep ==
    \/ ScanWebsiteEntry
    \/ LaunchBrowser
    \/ SeedDiscovery
    \/ LoopTop
    \/ PausePoll
    \/ StartWorker
    \/ AwaitWorkers
    \/ TimerFires
    \/ Drain
    \/ Settled
    \/ CloseBrowser
    \/ Finalize

\* the completion of an awaited call of some worker
WorkerStep ==
    \E i \in 1..MaxConcurrentBound :
        \/ FetchDone(i)
        \/ BodyDone(i)
        \/ GotoDone(i)
        \/ EvaluateDone(i)
        \/ ExtractDone(i)
        \/ CloseDone(i)

\* some worker's awaited call can complete: ENABLED <<WorkerStep>>_vars
WorkerReady ==
    /\ ~CoordSync
    /\ \E i \in 1..Len(activePromises) : activePromises[i].pc # "noop"

\* weak fairness of the handler's steps, strong fairness of the workers'
\* (a worker can complete only while the coordinator awaits)
EventLoop ==
    /\ WF_vars(HandlerStep)
    /\ (<>[]~WorkerReady) \/ ([]<><<WorkerStep>>_vars)

FairConfigs ==
    [url : {UHome},
     maxDepth : {MaxDepthBound},
     maxPages : 0..MaxPagesBound,
     maxConcurrent : 1..MaxConcurrentBound,
     pathRegexFilter : {NoFilter},
     usePuppeteer : BOOLEAN,
     login : {FALSE},
     scanId : ScanIds]

InitFair ==
    /\ config \in FairConfigs
    /\ cpc = "idle"
    /\ usePuppeteer = config.usePuppeteer
    /\ browser = "none"
    /\ scanControlStore = [id \in ScanIds |-> NoControl]
    /\ scanLogsStore = [id \in ScanIds |-> Absent]
    /\ scanResultsStore = [id \in ScanIds |-> Absent]
    /\ queue = <<>>
    /\ visited = {}
    /\ results = <<>>
    /\ logs = <<>>
    /\ activePromises = <<>>
    /\ lastQueueSize = 0
    /\ noProgressCount = 0
    /\ totalErrors = 0
    /\ totalLinksFound = 0
    /\ errorSummary = EmptyErrorSummary
    /\ nested = <<>>
    /\ ttlTimer = FALSE
    /\ faults = 0
    /\ fetchCount = [u \in SiteUrls |-> 0]
    /\ sessionCookies = <<>>
    /\ loginRedirectUrl = Null
    /\ startUrl = config.url
    /\ currentCookies = <<>>
    /\ csrfToken = ""
    /\ retryCookieMap = <<>>
    /\ loginHistory = <<>>
    /\ called = NoCall
    /\ returned = <<>>

SpecFair == InitFair /\ [][Next]_vars /\ EventLoop

(***************************************************************************)
(* Two sessions at once: the sixth specification.  The stores are module   *)
(* state shared by every call of scanWebsite; everything else of a session *)
(* lives in the closure of its call.  Next to the session that is crawled, *)
(* a second call of scanWebsite with another scanId runs: of that call the *)
(* model follows what it does to the shared stores, and the control RPCs   *)
(* are called with either scanId.                                          *)
(***************************************************************************)
OtherScanId == "s2"

TwoScanIds == ScanIds \cup {OtherScanId}

\* how many results the second session appends
OtherResultsBound == 1

IsolatedConfigs ==
    [url : {UHome},
     maxDepth : {0},
     maxPages : {1},
     maxConcurrent : {1},
     pathRegexFilter : {NoFilter},
     usePuppeteer : BOOLEAN,
     login : {FALSE},
     scanId : ScanIds]

InitIsolated ==
    /\ config \in IsolatedConfigs
    /\ cpc = "idle"
    /\ usePuppeteer = config.usePuppeteer
    /\ browser = "none"
    /\ scanControlStore = [id \in TwoScanIds |-> NoControl]
    /\ scanLogsStore = [id \in TwoScanIds |-> Absent]
    /\ scanResultsStore = [id \in TwoScanIds |-> Absent]
    /\ queue = <<>>
    /\ visited = {}
    /\ results = <<>>
    /\ logs = <<>>
    /\ activePromises = <<>>
    /\ lastQueueSize = 0
    /\ noProgressCount = 0
    /\ totalErrors = 0
    /\ totalLinksFound = 0
    /\ errorSummary = EmptyErrorSummary
    /\ nested = <<>>
    /\ ttlTimer = FALSE
    /\ faults = 0
    /\ fetchCount = [u \in SiteUrls |-> 0]
    /\ sessionCookies = <<>>
    /\ loginRedirectUrl = Null
    /\ startUrl = config.url
    /\ currentCookies = <<>>
    /\ csrfToken = ""
    /\ retryCookieMap = <<>>
    /\ loginHistory = <<>>
    /\ called = NoCall
    /\ returned = <<>>

\* what a step of the second session leaves alone: all but the stores
UnchangedBySession ==
    UNCHANGED <<pureVars, loginVars, config, cpc, usePuppeteer, browser, queue,
                visited, results, logs, activePromises, lastQueueSize,
                noProgressCount, totalErrors, totalLinksFound, errorSummary,
                nested, ttlTimer, faults, fetchCount>>

\* scanWebsite is called with scanId id: its store entries are set up
SessionStarts(id) ==
    /\ ~CoordSync
    /\ id # scanId
    /\ ~scanLogsStore[id].present
    /\ scanLogsStore' = [scanLogsStore EXCEPT ![id] = Present(<<>>)]
    /\ scanResultsStore' = [scanResultsStore EXCEPT ![id] = Present(<<>>)]
    /\ initializeScanControl(id)
    /\ UnchangedBySession

\* the session id logs an entry
SessionLogs(id) ==
    /\ ~CoordSync
    /\ id # scanId
    /\ scanLogsStore[id].present
    /\ scanLogsStore' =
          [scanLogsStore EXCEPT
              ![id] = Present(PushLog(@.v, LogEntry("info", "Scanning URL")))]
    /\ UNCHANGED <<scanControlStore, scanResultsStore>>
    /\ UnchangedBySession

\* the session id appends a result and copies its list to the store
SessionAppends(id) ==
    /\ ~CoordSync
    /\ id # scanId
    /\ scanResultsStore[id].present
    /\ Len(scanResultsStore[id].v) < OtherResultsBound
    /\ scanResultsStore' =
          [scanResultsStore EXCEPT
              ![id] = Present(Append(@.v,
                          ScanResult(UOther, "success", 200, <<>>, NoBody,
                                     NoClassification, 0)))]
    /\ UNCHANGED <<scanControlStore, scanLogsStore>>
    /\ UnchangedBySession

\* the eviction timer of the session id fires
EvictSession(id) ==
    /\ ~CoordSync
    /\ id # scanId
    /\ scanLogsStore[id].present
    /\ scanLogsStore' = [scanLogsStore EXCEPT ![id] = Absent]
    /\ scanResultsStore' = [scanResultsStore EXCEPT ![id] = Absent]
    /\ cleanupScanControl(id)
    /\ UnchangedBySession

NextIsolated ==
    \/ ScanWebsiteEntry
    \/ LaunchBrowser
    \/ SeedDiscovery
    \/ NestedSitemapArrives
    \/ LoopTop
    \/ PausePoll
    \/ StartWorker
    \/ AwaitWorkers
    \/ Drain
    \/ CloseBrowser
    \/ Finalize
    \/ Evict
    \/ \E id \in TwoScanIds : pauseScan(id)
    \/ \E id \in TwoScanIds : resumeScan(id)
    \/ \E id \in TwoScanIds : stopScan(id)
    \/ \E id \in TwoScanIds : SessionStarts(id)
    \/ \E id \in TwoScanIds : SessionLogs(id)
    \/ \E id \in TwoScanIds : SessionAppends(id)
    \/ \E id \in TwoScanIds : EvictSession(id)
    \/ \E i \in 1..MaxConcurrentBound : FetchDone(i)
    \/ \E i \in 1..MaxConcurrentBound : BodyDone(i)
    \/ \E i \in 1..MaxConcurrentBound : GotoDone(i)
    \/ \E i \in 1..MaxConcurrentBound : EvaluateDone(i)
    \/ \E i \in 1..MaxConcurrentBound : ExtractDone(i)
    \/ \E i \in 1..MaxConcurrentBound : CloseDone(i)

SpecIsolated == InitIsolated /\ [][NextIsolated]_vars

(***************************************************************************)
(* Properties of the crawl.                                                *)
(***************************************************************************)
isPaused == getScanControl(scanId).isPaused
isStopped == getScanControl(scanId).isStopped

\* the handler has ended: it returned, or it rejected on the stop condition
CrawlEnded == cpc \in {"returned", "rejected"}

ResultUrls == {results[i].url : i \in 1..Len(results)}

\* C1: in every reachable state of a crawl the results list holds at most
\* maxPages entries (so a crawl with maxPages = 1 ends with one result).
C1_ResultsWithinMaxPages == Len(results) <= MAX_PAGES

\* C2: in every reachable state, under both strategies and whatever the
\* outcome of each worker step, no two entries of results have the same URL.
C2_OneResultPerUrl ==
    \A i, j \in 1..Len(results) : results[i].url = results[j].url => i = j

\* C3: scanWebsite never ends by raising: when the coordinator's poll sees
\* isStopped the handler returns normally, its last log entry being
\* 'Scan stopped by user'.
C3_StopReturnsNormally ==
    /\ cpc # "rejected"
    /\ (cpc = "returned" /\ isStopped)
          => logs[Len(logs)] = LogEntry("info", "Scan stopped by user")

\* C4: once isStopped is set during a crawl, no pauseScan or resumeScan
\* clears it (only the eviction of the control entry removes it), and no
\* later step dequeues a frontier entry or starts a worker.
C4_StopIsSticky ==
    [][(cpc # "idle" /\ isStopped)
          => /\ \/ scanControlStore'[scanId].isStopped
                \/ ~scanControlStore'[scanId].present
             /\ Len(queue') >= Len(queue)
             /\ Len(activePromises') <= Len(activePromises)]_vars

\* stop and pause are both set, the coordinator has ended on the stop
\* condition, and work it could have started is left in the frontier
C4_Witness ==
    /\ cpc = "rejected"
    /\ isStopped
    /\ isPaused
    /\ Len(queue) > 0
    /\ Len(activePromises) < MAX_CONCURRENT
    /\ Len(results) < MAX_PAGES

\* C5, as stated: no step taken while isPaused stays set appends a result.
C5_NoResultWhilePaused ==
    [][(cpc # "idle" /\ isPaused /\ scanControlStore'[scanId].isPaused)
          => results' = results]_vars

\* C5, amended: while isPaused is set no frontier entry is dequeued and no
\* worker is started; a result appended meanwhile is the result of a worker
\* that was already in flight.
C5_PausedStartsNoWorker ==
    [][(cpc # "idle" /\ isPaused)
          => /\ Len(queue') >= Len(queue)
             /\ Len(activePromises') <= Len(activePromises)
             /\ results' # results
                   => \E i \in 1..Len(activePromises) :
                         results'[Len(results')].url = activePromises[i].url]_vars

\* the coordinator sleeps in waitIfPaused with work in the frontier and a
\* free slot, while a worker started before the pause is still in flight
C5_Witness ==
    /\ cpc = "paused"
    /\ isPaused
    /\ Len(queue) > 0
    /\ Len(results) < MAX_PAGES
    /\ Len(activePromises) < MAX_CONCURRENT
    /\ \E i \in 1..Len(activePromises) : activePromises[i].pc # "noop"

\* C6: at every moment the number of workers in flight is at most
\* maxConcurrent.
C6_InFlightWithinMaxConcurrent == Len(activePromises) <= MAX_CONCURRENT

\* every slot is taken by a worker awaiting the network while the frontier
\* still holds work and the page cap is not reached
C6_Witness ==
    /\ MAX_CONCURRENT = MaxConcurrentBound
    /\ Len(activePromises) = MAX_CONCURRENT
    /\ \A i \in 1..Len(activePromises) : activePromises[i].pc # "noop"
    /\ Len(queue) > 0
    /\ Len(results) < MAX_PAGES

\* C7: visited changes only in the step that dequeues an entry, by that
\* entry's URL; a worker that fetches has its URL in visited; and no URL
\* has a fetch started for it more than once.
C7_VisitedAtDequeueFetchedOnce ==
    /\ [](\A u \in SiteUrls : fetchCount[u] <= 1)
    /\ [](\A i \in 1..Len(activePromises) :
             activePromises[i].pc # "noop" => activePromises[i].url \in visited)
    /\ [][visited' # visited
             => /\ Len(queue) > 0
                /\ queue' = Tail(queue)
                /\ visited' = visited \cup {Head(queue).url}]_vars

\* two entries for one URL were dequeued in the same turn of the start
\* loop: the first worker fetches it, the second one is a no-op
C7_Witness ==
    \E i, j \in 1..Len(activePromises) :
        /\ i < j
        /\ activePromises[i].url = activePromises[j].url
        /\ activePromises[i].pc \in {"fetch", "goto"}
        /\ activePromises[j].pc = "noop"
        /\ activePromises[j].depth <= MAX_DEPTH
        /\ fetchCount[activePromises[i].url] = 1

\* C8: every entry a step appends to the frontier has a URL that is not in
\* visited.
C8_NoVisitedUrlPushed ==
    [][Len(queue') > Len(queue)
          => \A k \in (Len(queue) + 1)..Len(queue') : queue'[k].url \notin visited]_vars

\* /a was scanned after the start URL was dequeued: its link to /a/b is in
\* the frontier, its link back to the start URL is not
C8_Witness ==
    /\ UHome \in visited
    /\ UA \in ResultUrls
    /\ \E k \in 1..Len(queue) : queue[k].url = UB
    /\ \A k \in 1..Len(queue) : queue[k].url # UHome

\* C9: every result's URL is in visited, and no result has the URL of a
\* static asset.
C9_ResultsVisitedNeverStatic ==
    \A i \in 1..Len(results) :
        /\ results[i].url \in visited
        /\ ~isStaticFile(results[i].url)

\* a stylesheet URL was dequeued: it is in visited and has no result
C9_Witness ==
    /\ UCss \in visited
    /\ UCss \notin ResultUrls
    /\ Len(results) > 0

\* C10: the session's stores exist until the handler has ended, and once it
\* has ended, on whatever path, their eviction is pending or done.
C10_EvictedAfterEnd ==
    /\ (cpc # "idle" /\ ~CrawlEnded)
          => scanLogsStore[scanId].present /\ scanResultsStore[scanId].present
    /\ CrawlEnded
          => \/ ttlTimer
             \/ /\ getScanLogs(scanId) = <<>>
                /\ getScanResults(scanId) = <<>>
                /\ ~scanControlStore[scanId].present

\* a step in which an error reaches the catch block of scanSingleUrl
WorkerThrows == faults' # faults /\ errorSummary'.total # errorSummary.total

\* C11: the step in which a worker's fetch or processing throws appends
\* exactly one result, an error result with no links for that worker's URL,
\* removes that worker and no other from the workers in flight, leaves the
\* other workers, the frontier and visited as they were, and does not make
\* the coordinator end by raising.
C11_FailureIsolated ==
    [][WorkerThrows
          => \E i \in 1..Len(activePromises) :
                /\ activePromises' = RemoveAt(activePromises, i)
                /\ Len(results') = Len(results) + 1
                /\ SubSeq(results', 1, Len(results)) = results
                /\ results'[Len(results')].url = activePromises[i].url
                /\ results'[Len(results')].status = "error"
                /\ results'[Len(results')].links = <<>>
                /\ results'[Len(results')].depth = activePromises[i].depth
                /\ cpc' \in {cpc, "top", "settled"}
                /\ queue' = queue
                /\ visited' = visited]_vars

\* with one slot, the fetch of the first URL failed and was recorded, and
\* the coordinator has started the worker of the next URL
C11_Witness ==
    /\ MAX_CONCURRENT = 1
    /\ faults = 1
    /\ Len(results) = 1
    /\ results[1].status = "error"
    /\ results[1].links = <<>>
    /\ results[1].statusCode \in {408, Undefined}
    /\ Len(activePromises) = 1
    /\ activePromises[1].pc \in {"fetch", "goto"}
    /\ activePromises[1].url # results[1].url

\* the URLs a list of tokens found on page u leads to that a crawl may scan:
\* same-origin, not static, passing the path filter
Targets(tokens, u) ==
    {n \in {normalizeUrl(tokens[i], u) : i \in 1..Len(tokens)} :
        n # Null /\ isSameDomain(n, config.url) /\ ~isStaticFile(n) /\ PassesFilter(n)}

\* the pages the links of page u lead to
Links(u) == Targets(Site(u).hrefs, u)

\* the pages any discovery source of page u leads to
Successors(u) ==
    Links(u) \cup Targets(Site(u).jsonUrls, u) \cup Targets(<<Site(u).location>>, u)

Max(S) == CHOOSE m \in S : \A x \in S : x <= m

\* the length of the longest chain of distinct pages that starts at u
RECURSIVE LongestChainFrom(_, _)
LongestChainFrom(u, seen) ==
    LET next == Successors(u) \ seen
    IN IF next = {} THEN 0
       ELSE 1 + Max({LongestChainFrom(v, seen \cup {v}) : v \in next})

\* the pages reachable from the pages of S by following links
RECURSIVE ReachableFrom(_)
ReachableFrom(S) ==
    LET T == S \cup UNION {Links(u) : u \in S}
    IN IF T = S THEN S ELSE ReachableFrom(T)

C13_StatusMatchesCode ==
    \A i \in 1..Len(results) :
        /\ results[i].status \in {"success", "error"}
        /\ results[i].status = "success"
              <=> /\ results[i].statusCode # Undefined
                  /\ results[i].statusCode >= 200
                  /\ results[i].statusCode < 300

\* /a, served with status 200 and a not-found body, has an error result
\* with the corrected code 404, next to an error result with no statusCode
C13_Witness ==
    /\ \E i \in 1..Len(results) :
          /\ results[i].url = UA
          /\ Site(UA).status = 200
          /\ results[i].statusCode = 404
          /\ results[i].status = "error"
    /\ \E j \in 1..Len(results) :
          /\ results[j].statusCode = Undefined
          /\ results[j].status = "error"

\* worker i is the one that takes the step: it leaves the workers in flight
\* or its position changes, the other workers staying as they are
Acting(i) ==
    /\ i \in 1..Len(activePromises)
    /\ \/ activePromises' = RemoveAt(activePromises, i)
       \/ /\ Len(activePromises') = Len(activePromises)
          /\ activePromises'[i] # activePromises[i]
          /\ \A j \in 1..Len(activePromises) :
                j # i => activePromises'[j] = activePromises[j]

\* C14: the entries a step appends to the frontier have depth 0 when the
\* step is seed discovery or the arrival of a nested sitemap, and depth d+1
\* when it is the step of a worker scanning at depth d; a worker is started
\* with the URL and the depth of the entry dequeued for it; and the result
\* a worker appends carries that worker's URL and depth.
C14_DepthDiscipline ==
    [][/\ Len(queue') > Len(queue)
            => IF cpc = "seed" \/ nested' # nested
               THEN \A k \in (Len(queue) + 1)..Len(queue') : queue'[k].depth = 0
               ELSE \E i \in 1..Len(activePromises) :
                       /\ Acting(i)
                       /\ \A k \in (Len(queue) + 1)..Len(queue') :
                             queue'[k].depth = activePromises[i].depth + 1
       /\ Len(activePromises') > Len(activePromises)
            => /\ Len(queue) > 0
               /\ queue' = Tail(queue)
               /\ activePromises'[Len(activePromises')].url = Head(queue).url
               /\ activePromises'[Len(activePromises')].depth = Head(queue).depth
       /\ Len(results') > Len(results)
            => \E i \in 1..Len(activePromises) :
                  /\ Acting(i)
                  /\ results'[Len(results')].url = activePromises[i].url
                  /\ results'[Len(results')].depth = activePromises[i].depth]_vars

\* the start URL was scanned at depth 0 and /a, which it links to, at
\* depth 1, while a seed from the sitemap waits at depth 0
C14_Witness ==
    /\ \E i \in 1..Len(results) : results[i].url = UHome /\ results[i].depth = 0
    /\ \E i \in 1..Len(results) : results[i].url = UA /\ results[i].depth = 1
    /\ \E k \in 1..Len(queue) : queue[k].depth = 0

\* C15: no frontier entry was pushed from a page at depth >= maxDepth: as a
\* worker at depth d pushes at depth d+1 and seeds have depth 0, no entry
\* of the frontier has a depth above maxDepth, whichever source found it.
C15_NoPushBeyondMaxDepth ==
    \A k \in 1..Len(queue) : queue[k].depth <= MAX_DEPTH

\* C16: when a path filter is configured, every frontier entry other than
\* the start URL has a path that matches it, whichever producer pushed it.
C16_FrontierMatchesFilter ==
    config.pathRegexFilter # NoFilter
        => \A k \in 1..Len(queue) :
              queue[k].url # config.url
                 => matchesPathRegex(queue[k].url, config.pathRegexFilter)

\* C17: when scanWebsite returns from a crawl with maxPages >= 1 that was
\* not stopped and whose start URL is not a static asset, the start URL has
\* a result.
C17_StartUrlScanned ==
    (/\ cpc = "returned"
     /\ ~isStopped
     /\ MAX_PAGES >= 1
     /\ ~isStaticFile(config.url))
        => config.url \in ResultUrls

\* the retention timer has fired: the session's stores were deleted
SessionEvicted == cpc = "returned" /\ ~ttlTimer

\* C18: the streamed log buffer never holds more than maxLogEntries
\* entries, and from the start of the session until its eviction it is the
\* sequence of the most recent min(n, maxLogEntries) of the n log events
\* emitted so far, in emission order.
C18_LogBufferIsRing ==
    /\ Len(getScanLogs(scanId)) <= MaxLogEntries
    /\ ~SessionEvicted => getScanLogs(scanId) = LastN(logs, MaxLogEntries)

\* scanWebsite has returned after more than maxLogEntries log events: the
\* buffer is full and ends with the final summary entry
C18_Witness ==
    /\ cpc = "returned"
    /\ ttlTimer
    /\ Len(results) > 0
    /\ Len(getScanLogs(scanId)) = MaxLogEntries
    /\ getScanLogs(scanId)[MaxLogEntries] = LogEntry("info", "Scan completed")

IsPrefix(s, t) == Len(s) <= Len(t) /\ SubSeq(t, 1, Len(s)) = s

\* C19: every step leaves the results list as it was or appends to it;
\* while the results snapshot exists, a step leaves it a prefix of what it
\* becomes; every snapshot is a prefix of the results list; and the list no
\* longer changes once scanWebsite has returned it.
C19_ResultsAppendOnly ==
    [][/\ IsPrefix(results, results')
       /\ (scanResultsStore[scanId].present /\ scanResultsStore'[scanId].present)
             => IsPrefix(getScanResults(scanId), getScanResults(scanId)')
       /\ scanResultsStore'[scanId].present
             => IsPrefix(getScanResults(scanId)', results')
       /\ cpc = "returned" => results' = results]_vars

\* scanWebsite has returned two results and the snapshot, not yet evicted,
\* holds the same two
C19_Witness ==
    /\ cpc = "returned"
    /\ scanResultsStore[scanId].present
    /\ Len(results) = 2
    /\ getScanResults(scanId) = results

\* C20: once scanWebsite has ended no worker is in flight, and until the
\* session is evicted no step changes the results list, the results
\* snapshot, the log buffer or the error summary.
C20_FrozenAfterEnd ==
    [][(CrawlEnded /\ ~SessionEvicted)
          => /\ activePromises = <<>>
             /\ ttlTimer' = ttlTimer
                   => /\ results' = results
                      /\ scanResultsStore' = scanResultsStore
                      /\ scanLogsStore' = scanLogsStore
                      /\ errorSummary' = errorSummary]_vars

C22_LinksAreFiltered ==
    \A i \in 1..Len(results) :
        \A k \in 1..Len(results[i].links) :
            LET l == results[i].links[k] IN
            /\ ~isStaticFile(l)
            /\ isSameDomain(l, config.url)
            /\ \E h \in 1..Len(Site(results[i].url).hrefs) :
                  normalizeUrl(Site(results[i].url).hrefs[h], results[i].url) = l

\* the login of the session is over: the start URL is determined
LoginOver == HasLogin /\ cpc \notin LoginPcs \cup {"idle", "launch"}

\* the requests of the HTTP form login, in order
FormRequests == SelectSeq(loginHistory, LAMBDA e : e.kind \in {"GET", "POST"})
CredentialPosts == SelectSeq(loginHistory, LAMBDA e : e.kind = "POST")

\* only the HTTP form login has acted on the session
FormLoginOnly ==
    /\ FormRequests # <<>>
    /\ \A i \in 1..Len(loginHistory) :
          loginHistory[i].kind = "BROWSER" => loginHistory[i].status = 0

\* C23: in the HTTP form login a credential POST answered with 419 is
\* followed by a refetch of the login page and, once that is answered, by
\* exactly one more POST; there are never more than two credential POSTs,
\* and the second is sent only after a 419.
C23_RetryOnceOn419 ==
    /\ Len(CredentialPosts) <= 2
    /\ Len(CredentialPosts) = 2 => CredentialPosts[1].status = 419
    /\ (/\ LoginOver
        /\ Len(CredentialPosts) >= 1
        /\ CredentialPosts[1].status = 419
        /\ Len(FormRequests) >= 3
        /\ FormRequests[3].kind = "GET"
        /\ FormRequests[3].status # 0)
          => /\ Len(FormRequests) = 4
             /\ FormRequests[4].kind = "POST"

\* the Location of the last 3xx answer to a credential POST, else the
\* operator-supplied url
RedirectOrUrl ==
    LET r == SelectSeq(CredentialPosts,
                       LAMBDA e : e.status >= 300 /\ e.status < 400
                                  /\ e.location # Null)
    IN IF r # <<>> THEN r[Len(r)].location ELSE config.url

\* C24: after the HTTP form login the start URL is the Location of the 3xx
\* answer to the credential POST or to its retry when there was one, and
\* the operator-supplied url in every other case.
C24_StartUrlAfterFormLogin ==
    (LoginOver /\ FormLoginOnly) => startUrl = RedirectOrUrl

\* C25: when, after a login of either variant, the URL the crawl would
\* start from is still the login page, a warning is logged and the crawl
\* starts from the operator-supplied url instead.
C25_LoginPageReverts ==
    LoginOver =>
        LET effective == IF loginRedirectUrl # Null THEN loginRedirectUrl
                         ELSE config.url
        IN (UrlHasLogin(effective) \/ BodyHasLogin(effective))
              => /\ startUrl = config.url
                 /\ Warned \in SeqToSet(loginHistory)

\* the last-write-wins merge by name of the cookies the answers of the
\* requests rs set, the values of a login page URL-decoded
RECURSIVE MergedJar(_, _)
MergedJar(m, rs) ==
    IF rs = <<>> THEN m
    ELSE LET e == Head(rs)
             c == Head(e.setCookie)
         IN MergedJar(IF e.setCookie = <<>> THEN m
                      ELSE MapSet(m, c.n, IF e.kind = "GET"
                                          THEN decodeURIComponent(c.v) ELSE c.v),
                      Tail(rs))

JarIsMerge ==
    (LoginOver /\ FormLoginOnly)
        => SeqToSet(sessionCookies) = SeqToSet(MergedJar(<<>>, FormRequests))

\* C26: the cookie jar the HTTP form login leaves is the last-write-wins
\* merge by name of the cookies set by every answer of the login sequence
\* in order, and no step after the login changes it.
C26_CookieJarIsMerge ==
    [][/\ JarIsMerge'
       /\ LoginOver => sessionCookies' = sessionCookies]_vars

\* the body markers make the soft-error code applicable
Applicable(code, markers) ==
    IF code = 404
    THEN markers \cap NotFoundPatterns # {} /\ markers \cap NotFoundAnchors # {}
    ELSE IF code = 403 THEN markers \cap ForbiddenPatterns # {}
    ELSE IF code = 500 THEN markers \cap ServerErrorPatterns # {}
    ELSE IF code = 401 THEN markers \cap UnauthorizedPatterns # {}
    ELSE FALSE

\* the soft-error codes in their order of precedence
SoftOrder == <<404, 403, 500, 401>>

\* C27: soft-error correction touches only a raw status of exactly 200 and
\* then sets the first applicable code in the order 404, 403, 500, 401,
\* 404 needing its anchor; otherwise the status code is the raw one.  The
\* corrected code decides status, responseBody and error classification of
\* the result.
C27_SoftErrorCorrection ==
    called.fn = "softError" =>
        LET raw == called.args[1]
            markers == called.args[2]
            code == returned.statusCode
            c == classifyError(Err({}, ""), code)
        IN /\ raw # 200 => code = raw
           /\ raw = 200 =>
                 /\ code \in {200} \cup SeqToSet(SoftOrder)
                 /\ \A k \in 1..Len(SoftOrder) :
                       code = SoftOrder[k]
                          <=> /\ Applicable(SoftOrder[k], markers)
                              /\ \A j \in 1..(k - 1) : ~Applicable(SoftOrder[j], markers)
           /\ returned.status = "success" <=> (code >= 200 /\ code < 300)
           /\ returned.responseBody.present <=> (code >= 400 /\ code < 600)
           /\ returned.status = "error"
                 => /\ returned.errorType = c.type
                    /\ returned.errorSeverity = c.severity
                    /\ returned.errorRetryable = c.retryable

\* a 200 whose body matches a 404 pattern without an anchor, says
\* "forbidden" and "server error": corrected to 403, with body and a
\* client/high classification
C27_Witness ==
    /\ called.fn = "softError"
    /\ called.args[1] = 200
    /\ called.args[2] = {"trang khong ton tai", "forbidden", "server error"}
    /\ returned.statusCode = 403
    /\ returned.status = "error"
    /\ returned.responseBody.present
    /\ returned.errorType = "client"
    /\ returned.errorSeverity = "high"

HasTimeoutMarker(e) ==
    \/ e.msg \cap {"timeout", "headers timeout"} # {}
    \/ e.code \in {"UND_ERR_HEADERS_TIMEOUT", "ETIMEDOUT", "TimeoutError"}

HasNetworkMarker(e) ==
    \/ e.msg \cap {"network", "connection", "econnrefused", "enotfound",
                   "econnreset"} # {}
    \/ e.code \in {"ECONNREFUSED", "ENOTFOUND", "ECONNRESET", "ECONNABORTED"}

\* the classification table, read top down; serverMessages says whether the
\* row for messages mentioning a server error is part of it
Table(e, statusCode, serverMessages) ==
    IF statusCode >= 500 THEN Classification("server", "high", TRUE)
    ELSE IF statusCode \in {401, 403} THEN Classification("client", "high", FALSE)
    ELSE IF statusCode \in {429, 408} THEN Classification("client", "medium", TRUE)
    ELSE IF statusCode >= 400 THEN Classification("client", "medium", FALSE)
    ELSE IF HasTimeoutMarker(e) THEN Classification("timeout", "medium", TRUE)
    ELSE IF HasNetworkMarker(e) THEN Classification("network", "high", TRUE)
    ELSE IF serverMessages /\ e.msg \cap {"server error", "internal error"} # {}
    THEN Classification("server", "high", TRUE)
    ELSE IF e.msg \cap {"memory", "out of memory", "crash", "fatal"} # {}
    THEN Classification("unknown", "critical", FALSE)
    ELSE Classification("unknown", "medium", FALSE)

Sum(f) ==
    LET RECURSIVE S(_)
        S(D) == IF D = {} THEN 0
                ELSE LET d == CHOOSE d \in D : TRUE IN f[d] + S(D \ {d})
    IN S(DOMAIN f)

\* the recentErrors entries of all the errors recorded so far, in order
AllRecorded ==
    [i \in 1..Len(called.args) |->
        [url |-> RecordedErrors[called.args[i]].url,
         severity |-> classifyError(RecordedErrors[called.args[i]].error,
                                    RecordedErrors[called.args[i]].statusCode).severity]]

\* C30: after any sequence of recorded errors total is the sum of the
\* byType counters and the sum of the bySeverity counters, recentErrors
\* holds the most recent min(total, 50) errors in order, and scanWebsite
\* returns the most recent min(total, 20) of them.
C30_ErrorSummaryConsistent ==
    called.fn \in {"recordError", "return"} =>
        /\ errorSummary.total = Len(called.args)
        /\ Sum(errorSummary.byType) = errorSummary.total
        /\ Sum(errorSummary.bySeverity) = errorSummary.total
        /\ errorSummary.recentErrors = LastN(AllRecorded, RecentErrorsCap)
        /\ Len(errorSummary.recentErrors) = Min(errorSummary.total, RecentErrorsCap)
        /\ called.fn = "return" =>
              /\ returned.total = errorSummary.total
              /\ returned.recentErrors = LastN(AllRecorded, ReturnedErrorsCap)
              /\ Len(returned.recentErrors) = Min(errorSummary.total, ReturnedErrorsCap)

\* more than 50 errors of all three kinds were recorded, the last 20 of
\* them of two kinds, and scanWebsite has returned
C30_Witness ==
    /\ called.fn = "return"
    /\ errorSummary.total > RecentErrorsCap
    /\ Len(errorSummary.recentErrors) = RecentErrorsCap
    /\ Len(returned.recentErrors) = ReturnedErrorsCap
    /\ called.args[1] = 1
    /\ returned.recentErrors[1].severity = "high"
    /\ returned.recentErrors[ReturnedErrorsCap].severity = "critical"

\* C29: with a malformed seed (an empty or unparseable url) scanWebsite
\* fails fast: the step it takes from its entry allocates no log buffer, no
\* results snapshot and no control-plane entry for the scanId, and queues
\* nothing to fetch.
C29_MalformedSeedFailsFast ==
    [][(~isParseable(config.url) /\ cpc = "idle" /\ cpc' # "idle")
          => /\ scanLogsStore' = scanLogsStore
             /\ scanResultsStore' = scanResultsStore
             /\ scanControlStore' = scanControlStore
             /\ cpc' \notin {"launch", "seed"}]_vars

\* stop is set while the coordinator sleeps in the pause poll
StoppedInPoll == cpc = "paused" /\ isPaused /\ isStopped

\* C31: when isStopped is set while the coordinator sleeps in the pause
\* poll with isPaused set, its next poll leaves waitIfPaused by the stop
\* condition, whether or not resumeScan is called, and that step dequeues
\* nothing and starts no worker.
C31_StopBeatsPause ==
    /\ [][(cpc = "paused" /\ isStopped /\ cpc' # cpc)
             => /\ cpc' = "rejected"
                /\ queue' = queue
                /\ Len(activePromises') <= Len(activePromises)]_vars
    /\ (StoppedInPoll ~> cpc = "rejected")

\* stop was set during the pause, with work in the frontier, a free slot
\* and the page cap not reached
C31_Witness ==
    /\ StoppedInPoll
    /\ Len(queue) > 0
    /\ Len(activePromises) < MAX_CONCURRENT
    /\ Len(results) < MAX_PAGES

\* the frontier is empty or the page cap is reached
DrainedOrCapped == queue = <<>> \/ Len(results) >= MAX_PAGES

\* C32: no step taken while isPaused is set and isStopped is not dequeues a
\* frontier entry or starts a worker; once the flag is cleared the
\* coordinator leaves the pause poll; and in a session that is not stopped
\* and not paused forever, the entries waiting in the frontier during a
\* pause are all dequeued afterwards, unless the page cap is reached first.
C32_PauseHoldsThenResumes ==
    /\ [][(cpc # "idle" /\ isPaused /\ ~isStopped)
             => /\ Len(queue') >= Len(queue)
                /\ Len(activePromises') <= Len(activePromises)]_vars
    /\ ((cpc = "paused" /\ ~isPaused /\ ~isStopped)
            ~> (cpc = "start" \/ isPaused \/ isStopped))
    /\ ((<>[]~isPaused /\ []~isStopped)
            => [](cpc = "paused" => <>DrainedOrCapped))

\* the coordinator sleeps in the pause poll with no worker in flight while
\* two entries wait in the frontier, below the page cap
C32_Witness ==
    /\ cpc = "paused"
    /\ isPaused
    /\ ~isStopped
    /\ activePromises = <<>>
    /\ Len(queue) >= 2
    /\ Len(results) < MAX_PAGES

\* a step by which the coordinator leaves its main loop normally
LoopExits == cpc \in {"top", "start"} /\ cpc' = "drain"

\* C33: the main loop is left only with the frontier empty and no worker
\* in flight, or with results.length at maxPages, or by the stop condition
\* when isStopped is set; and in every session that is not paused forever,
\* with every awaited call of a worker completing, scanWebsite ends.
C33_Termination ==
    /\ [][LoopExits
             => \/ queue = <<>> /\ activePromises = <<>>
                \/ Len(results) >= MAX_PAGES]_vars
    /\ [][(cpc # "rejected" /\ cpc' = "rejected")
             => cpc \in {"top", "paused"} /\ isStopped]_vars
    /\ ((<>[]~isPaused) => <>CrawlEnded)

\* scanWebsite has returned, unstopped, because the page cap was reached:
\* entries are left in the frontier
C33_Witness ==
    /\ cpc = "returned"
    /\ ~isStopped
    /\ Len(queue) > 0
    /\ Len(results) >= MAX_PAGES
    /\ MAX_PAGES > 0

\* C34: a step that pushes onto the frontier is seed discovery, the
\* arrival of a nested sitemap, or the step of a worker whose page has no
\* result in results yet: once the result of a page is visible, the scan
\* of that page pushes nothing more.
C34_EnqueueBeforeResult ==
    [][Len(queue') > Len(queue)
          => \/ cpc = "seed"
             \/ nested' # nested
             \/ \E i \in 1..Len(activePromises) :
                   /\ Acting(i)
                   /\ activePromises[i].url \notin ResultUrls]_vars

\* the result of the start page is visible while its page context is still
\* being closed, and the two pages it links to are in the frontier
C34_Witness ==
    /\ Len(results) = 1
    /\ results[1].url = UHome
    /\ \E i \in 1..Len(activePromises) :
          activePromises[i].url = UHome /\ activePromises[i].pc = "closing"
    /\ \E k \in 1..Len(queue) : queue[k] = QueueItem(UA, 1)
    /\ \E k \in 1..Len(queue) : queue[k] = QueueItem(UC, 1)

\* C35: the frontier changes only by pushes at its tail and by the removal
\* of its head, and the step that removes the head starts the worker of
\* that very entry: entries are dequeued, and their workers started, in
\* the order in which they were pushed.
C35_FrontierIsFifo ==
    [][\/ IsPrefix(queue, queue')
       \/ /\ queue # <<>>
          /\ queue' = Tail(queue)
          /\ Len(activePromises') = Len(activePromises) + 1
          /\ SubSeq(activePromises', 1, Len(activePromises)) = activePromises
          /\ activePromises'[Len(activePromises')].url = Head(queue).url
          /\ activePromises'[Len(activePromises')].depth = Head(queue).depth]_vars

\* two workers are in flight, the first started for a seed, while an entry
\* pushed by a scanned page at depth 1 waits behind a seed of depth 0
C35_Witness ==
    /\ Len(activePromises) = 2
    /\ activePromises[1].depth = 0
    /\ Len(results) > 0
    /\ Len(queue) >= 2
    /\ Head(queue).depth = 0
    /\ queue[Len(queue)].depth = 1

\* the last thing logged is that browser.close() threw
CloseThrew ==
    logs # <<>> /\ logs[Len(logs)] = LogEntry("warning", "Error closing browser")

\* C36: the step by which scanWebsite ends, on whatever path, leaves no
\* browser open that was launched for the session, unless browser.close()
\* has just thrown.
C36_BrowserClosedAtEnd ==
    [][(~CrawlEnded /\ CrawlEnded' /\ browser' = "open") => CloseThrew]_vars

\* C37: results.length never exceeds maxPages + maxConcurrent - 1 (for
\* maxPages >= 1), and never exceeds maxPages when maxConcurrent = 1; and
\* no worker is started while results.length >= maxPages.
C37_OvershootBounded ==
    /\ [](MAX_PAGES >= 1 => Len(results) <= MAX_PAGES + MAX_CONCURRENT - 1)
    /\ [](MAX_CONCURRENT = 1 => Len(results) <= MAX_PAGES)
    /\ [][Len(activePromises') > Len(activePromises)
             => Len(results) < MAX_PAGES]_vars

\* the URLs the session has had in its frontier at depth 0
SeenSeeds ==
    {results[i].url : i \in {j \in 1..Len(results) : results[j].depth = 0}}
       \cup {queue[k].url : k \in {j \in 1..Len(queue) : queue[j].depth = 0}}
       \cup {activePromises[i].url :
                i \in {j \in 1..Len(activePromises) : activePromises[j].depth = 0}}

\* the length of the shortest chain of discoveries that leads from a page
\* of S to u, counted from d; -1 when there is none
RECURSIVE ChainLength(_, _, _, _)
ChainLength(u, S, seen, d) ==
    IF u \in S THEN d
    ELSE LET T == (UNION {Successors(v) : v \in S}) \ (seen \cup S)
         IN IF T = {} THEN -1 ELSE ChainLength(u, T, seen \cup S, d + 1)

\* C38: in a crawl without a failed call, the depth of every result is the
\* length of the shortest chain from a depth-0 seed to its URL; and when
\* such a crawl has returned, unstopped, below the page cap and with its
\* frontier empty, every page the crawl may scan whose shortest chain is at
\* most maxDepth long has a result.
C38_DepthIsShortestChain ==
    faults = 0
       => /\ \A i \in 1..Len(results) :
                results[i].depth = ChainLength(results[i].url, SeenSeeds, {}, 0)
          /\ (/\ cpc = "returned"
              /\ ~isStopped
              /\ Len(results) < MAX_PAGES
              /\ queue = <<>>)
                => \A u \in SiteUrls :
                      LET d == ChainLength(u, SeenSeeds, {}, 0)
                      IN (d >= 0 /\ d <= MAX_DEPTH /\ ~isStaticFile(u) /\ PassesFilter(u))
                            => u \in ResultUrls

\* C39: every result has a depth of at most maxDepth; and the step that
\* dequeues a frontier entry whose depth exceeds maxDepth leaves visited,
\* the fetches started and the results as they were, the worker started
\* for the entry returning at once.
C39_DepthWithinMaxDepth ==
    /\ [](\A i \in 1..Len(results) : results[i].depth <= MAX_DEPTH)
    /\ [][(/\ queue # <<>>
            /\ queue' = Tail(queue)
            /\ Head(queue).depth > MAX_DEPTH)
              => /\ visited' = visited
                 /\ fetchCount' = fetchCount
                 /\ results' = results
                 /\ activePromises'[Len(activePromises')].pc = "noop"]_vars

\* the worker started for an entry deeper than maxDepth has returned at
\* once: its URL is not visited, was never fetched and has no result
C39_Witness ==
    \E i \in 1..Len(activePromises) :
        /\ activePromises[i].depth > MAX_DEPTH
        /\ activePromises[i].pc = "noop"
        /\ activePromises[i].url \notin visited
        /\ fetchCount[activePromises[i].url] = 0
        /\ activePromises[i].url \notin ResultUrls

\* what the stores hold under one scanId
EntriesOf(id) ==
    <<scanControlStore[id], scanLogsStore[id], scanResultsStore[id]>>

\* the crawled session: its store entries and what its call keeps in its closure
CrawledSession ==
    <<EntriesOf(scanId), logs, results, queue, visited, activePromises, cpc>>

OtherSessions == DOMAIN scanControlStore \ {scanId}

\* an operation that carries the scanId of another session
CarriesOtherScanId ==
    \E id \in OtherSessions :
        \/ pauseScan(id)
        \/ resumeScan(id)
        \/ stopScan(id)
        \/ SessionStarts(id)
        \/ SessionLogs(id)
        \/ SessionAppends(id)
        \/ EvictSession(id)

\* C40: two sessions with different scanIds do not touch each other: an
\* operation that carries the other session's scanId (pauseScan, resumeScan,
\* stopScan, a log emission, a result append, the TTL eviction) leaves the
\* crawled session's control flags, log buffer, results snapshot, frontier and
\* visited set as they are, and no step at all changes both the store entries
\* of another scanId and the state of the crawled session.
C40_SessionIsolation ==
    /\ [][CarriesOtherScanId => UNCHANGED CrawledSession]_vars
    /\ [][\A id \in OtherSessions :
            (EntriesOf(id)' # EntriesOf(id)) => UNCHANGED CrawledSession]_vars

\* the other session is paused and stopped and has logged and appended, while
\* the crawled session was neither paused nor stopped and returned its result
C40_Witness ==
    /\ scanControlStore[OtherScanId].present
    /\ scanControlStore[OtherScanId].isPaused
    /\ scanControlStore[OtherScanId].isStopped
    /\ scanLogsStore[OtherScanId].present
    /\ scanLogsStore[OtherScanId].v # <<>>
    /\ scanResultsStore[OtherScanId].present
    /\ scanResultsStore[OtherScanId].v # <<>>
    /\ cpc = "returned"
    /\ scanControlStore[scanId].present
    /\ ~scanControlStore[scanId].isPaused
    /\ ~scanControlStore[scanId].isStopped
    /\ results # <<>>
    /\ scanResultsStore[scanId].present
    /\ scanResultsStore[scanId].v = results
    /\ scanResultsStore[scanId].v # scanResultsStore[OtherScanId].v

====
